---- MODULE Spec2Model ----
(***************************************************************************)
(* A model of acloud's instance-creation pipeline.                         *)
(*                                                                         *)
(*   SpecDriver : public/actions/common_operations.py, the DevicePool and  *)
(*                the CreateDevices driver shared by the remote-instance   *)
(*                strategies.                                              *)
(*   SpecLocal  : create/local_image_local_instance.py, _CreateAVD and     *)
(*                _CreateInstance run by concurrent acloud processes that  *)
(*                share the local instance-id locks.                       *)
(***************************************************************************)
EXTENDS Integers, Sequences, FiniteSets, TLC

VARIABLES
    \* ---- CreateDevices driver (common_operations.py) ----
    num,            \* the num argument of CreateDevices
    cfg,            \* [pub, priv]: whether cfg.ssh_{public,private}_key_path is set
    report_internal_ip,
    pc,             \* position of the driver inside CreateDevices
    devices,        \* DevicePool._devices
    failures,       \* the dict built by DevicePool.WaitForBoot
    widx,           \* index of the for loop of DevicePool.WaitForBoot
    ridx,           \* index of the "write result to report" loop
    reporter,       \* the Report built by CreateDevices
    result,         \* how CreateDevices ended: "none", "report", "raised"
    createLog,      \* history: the CreateInstance calls, in call order
    waitLog,        \* history: the compute_client.WaitForBoot calls, in call order
    \* ---- local instance creation (local_image_local_instance.py) ----
    lpc,            \* per process: position inside _CreateAVD
    spec_id,        \* per process: avd_spec.local_instance_id (0: not given)
    no_prompts,     \* per process: the no_prompts argument
    cand,           \* per process: candidate_id of the scan loop
    ins_id,         \* per process: the selected ins_id (0: None)
    lreport,        \* per process: the Report _CreateAVD holds ("none" or a status)
    pending,        \* per process: how the try block is leaving ("none", "return", "raise", "exit")
    lresult,        \* per process: how _CreateAVD ended
    lockHolder,     \* per instance id: the process holding the lock file (0: free)
    lockInUse,      \* per instance id: the in-use mark stored in the lock file
    acquired,       \* history, per process: lock acquisitions kept by _CreateAVD
    unlocks,        \* history, per process: calls of ins_lock.Unlock() by _CreateAVD
    marks,          \* history, per process: set of <<id, report existed>> of SetInUse(True) calls
    inUseAtStart,   \* history: lockInUse in the initial state
    lerror,         \* per process: the error text of the Report ("none": no error)
    launched,       \* history, per process: launch_cvd was started by _CreateInstance
    \* ---- utils.Retry and the remote-shell helpers built on it ----
    caller,         \* who calls Retry: "Retry" (any caller) or one of the two helpers
    retry_types,    \* the exception types retry_checker accepts
    max_retries,    \* the max_retries argument
    sleep_multiplier,
    retry_backoff_factor,
    attempt_count,  \* the local attempt_count of Retry
    rpc,            \* position: "loop", "done", "propagated"
    rresult,        \* how Retry ended: [kind, what, call]
    callLog,        \* history: the calls of functor, in call order
    sleeps,         \* history: the arguments of time.sleep, in call order
    \* ---- utils.PollAndWait ----
    timeout_secs,
    sleep_interval_secs,
    expected_return,
    start,          \* start = time.time()
    now,            \* the clock read by time.time()
    ppc,            \* position: "start", "call", "check", "done"
    return_value,   \* what the last call of func returned
    polls,          \* history: number of calls of func (counted up to MaxPolls)
    presult,        \* how PollAndWait ended: "none", "returned", "timeout_exception"
    \* ---- acloud_main.main and create.Run ----
    which,          \* args.which
    avd_type,       \* args.avd_type
    report_file,    \* whether args.report_file is set
    mpc,            \* position inside main / create.Run
    spec_outcome,   \* history: how avd_spec.AVDSpec(args) ended ("none", "ok", "error")
    instance_type,  \* spec.instance_type
    image_source,   \* spec.image_source
    avd_creator,    \* the class GetAvdCreatorClass returned ("none": not selected)
    instantiated,   \* history: avd_creator_class() was called
    create_called,  \* history: avd_creator.Create(spec) was called
    run_report,     \* the report variable of create.Run
    main_report,    \* the report variable of main
    dumped,         \* history: report.Dump was called
    ended,          \* how the process ended: "none", "returned", "raised", "sys_exit"
    main_return,    \* the value main returned (-1: it did not return)
    exit_code,      \* the exit status of the process (-1: still running)
    \* ---- _CreateInstance and _LaunchCvd of one local instance ----
    cvd_id,         \* local_instance_id
    cvd_timeout,    \* the timeout argument of _LaunchCvd, in clock ticks
    cvd_clock,      \* time since subprocess.Popen
    cvd_pc,         \* position: "launch", "wait", "get_active", "done"
    cvd_proc,       \* the launch_cvd process: "none", "running", "exited"
    cvd_returncode, \* process.returncode once the process has exited
    cvd_timer,      \* the threading.Timer: "none", "started", "fired", "cancelled"
    cvd_killed,     \* history: the timer's process.kill ended the process
    cvd_report,     \* result_report
    cvd_result,     \* how _CreateInstance ended: "none", "report", "raised"
    \* ---- RemoteImageLocalInstance._DownloadAndProcessImageFiles ----
    cache_dirs,     \* per build id: [exists, done] of _TEMP_IMAGE_FOLDER/<build_id>
    ic_count,       \* history: number of invocations started so far
    ic_pc,          \* position: "idle" (no invocation running), "processing"
    ic_build,       \* build_id of the current (or last) invocation
    ic_existed,     \* os.path.exists(extract_path) as the invocation saw it
    ic_steps,       \* history: the processing steps the invocation has run
    ic_result,      \* how the invocation ended: [kind, path]
    \* ---- acloud create: VerifyArgs, PreRunCheck, AVDSpec(args) ----
    argv_local_image, \* command line: how --local-image was given
    args,             \* argparse namespace: local_image, local_instance, branch,
                      \* build_target, build_id, hw_property (its kind)
    env_product_out,  \* os.environ: $ANDROID_PRODUCT_OUT or "unset"
    avd_pc,           \* position of the invocation
    avd_error,        \* name of the exception that ended it, "" for none
    gcp_checked,      \* PreRunCheck consulted the GCP setup
    avd_instance_type,\* AVDSpec._instance_type
    avd_image_source, \* AVDSpec._image_source
    local_image_dir,  \* AVDSpec._local_image_dir
    remote_image,     \* AVDSpec._remote_image
    inferred,         \* history: the remote build fields that were inferred
    lkgb_calls,       \* history: calls of AndroidBuildClient.GetLKGB
    artifacts_path,   \* image path GetImageArtifactsPath handed to the launch
    \* ---- utils.CreateSshKeyPairIfNotExist ----
    same_pub_path,    \* public_key_path is private_key_path + ".pub"
    key_folder,       \* os.path.dirname(private_key_path) exists
    private_file,     \* the private key file: 0 missing, else the id of its key
    public_file,      \* the file at public_key_path: [exists, key]
    default_pub_file, \* the file at private_key_path + ".pub" when that is
                      \* another path: [exists, key]
    next_key,         \* id of the next key ssh-keygen generates
    ssh_calls,        \* history: invocations so far
    ssh_before,       \* history: the two halves as the last invocation found them
    ssh_generated,    \* history: what the last invocation ran: [keygen, pubgen]
    ssh_result,       \* how the last invocation ended
    \* ---- hardware properties: VerifyArgs, AVDSpec._ProcessHWPropertyArgs ----
    cfg_hw_property,  \* self._cfg.hw_property, the default string of the config
    arg_hw_property,  \* args.hw_property, the string given with --hw-property
    hw_property,      \* AVDSpec._hw_property: [none, dict]
    hw_pc,            \* position: "verify", "defaults", "overrides", "done", "raised"
    hw_error,         \* name of the exception that ended it, "" for none
    \* ---- one device after the other through CreateInstance and WaitForBoot ----
    prov_num,         \* avd_spec.num
    local_image_zip,  \* the image is a zip of 'm dist' (else a directory of images)
    prov_pc,          \* position: "verify", "create", "wait", "done", "raised"
    prov_dev,         \* the device the loop of CreateDevices or WaitForBoot is at
    prov_step,        \* index of the step of CreateInstance that runs next
    prov_cmd,         \* shell commands of the running step that have ended
    prov_state,       \* per device: the provisioning state it is in
    prov_trace,       \* history, per device: the states it went through
    prov_started,     \* history, per device: <<step, state at its start>>
    prov_error,       \* the exception that ended the invocation, "" for none
    \* ---- GoldfishLocalImageLocalInstance._WaitForEmulatorToStart ----
    emu_proc,         \* the emulator process: "running" (proc.poll() is None) or "exited"
    emu_available,    \* what _IsEmulatorRunning(adb) returns
    emu_start,        \* start = time.time() of PollAndWait
    emu_clock,        \* time.time(), in seconds
    emu_pc,           \* position: "poll", "after_poll", "done"
    emu_result,       \* how the wait ended: "none", "returned" or the exception
    emu_died_early    \* history: the process exited before the emulator was available

driverVars == <<num, cfg, report_internal_ip, pc, devices, failures, widx, ridx,
                reporter, result, createLog, waitLog>>
localVars == <<lpc, spec_id, no_prompts, cand, ins_id, lreport, pending, lresult,
               lockHolder, lockInUse, acquired, unlocks, marks, inUseAtStart,
               lerror, launched>>
retryVars == <<caller, retry_types, max_retries, sleep_multiplier,
               retry_backoff_factor, attempt_count, rpc, rresult, callLog, sleeps>>
pollVars == <<timeout_secs, sleep_interval_secs, expected_return, start, now,
              ppc, return_value, polls, presult>>
mainVars == <<which, avd_type, report_file, mpc, spec_outcome, instance_type,
              image_source, avd_creator, instantiated, create_called,
              run_report, main_report, dumped, ended, main_return, exit_code>>
launchVars == <<cvd_id, cvd_timeout, cvd_clock, cvd_pc, cvd_proc, cvd_returncode,
                cvd_timer, cvd_killed, cvd_report, cvd_result>>
cacheVars == <<cache_dirs, ic_count, ic_pc, ic_build, ic_existed, ic_steps,
               ic_result>>
avdVars == <<argv_local_image, args, env_product_out, avd_pc, avd_error,
             gcp_checked, avd_instance_type, avd_image_source, local_image_dir,
             remote_image, inferred, lkgb_calls, artifacts_path>>
sshKeyVars == <<same_pub_path, key_folder, private_file, public_file, default_pub_file,
                next_key, ssh_calls, ssh_before, ssh_generated, ssh_result>>
hwVars == <<cfg_hw_property, arg_hw_property, hw_property, hw_pc, hw_error>>
provVars == <<prov_num, local_image_zip, prov_pc, prov_dev, prov_step, prov_cmd,
              prov_state, prov_trace, prov_started, prov_error>>
emuVars == <<emu_proc, emu_available, emu_start, emu_clock, emu_pc, emu_result,
             emu_died_early>>
vars == <<driverVars, localVars, retryVars, pollVars, mainVars, launchVars,
    cacheVars, avdVars, sshKeyVars, hwVars, provVars, emuVars>>

\* What the actions of one component leave alone.
otherThanDriver == <<localVars, retryVars, pollVars, mainVars, launchVars,
    cacheVars, avdVars, sshKeyVars, hwVars, provVars, emuVars>>
otherThanLocal == <<driverVars, retryVars, pollVars, mainVars, launchVars,
    cacheVars, avdVars, sshKeyVars, hwVars, provVars, emuVars>>
otherThanRetry == <<driverVars, localVars, pollVars, mainVars, launchVars,
    cacheVars, avdVars, sshKeyVars, hwVars, provVars, emuVars>>
otherThanPoll == <<driverVars, localVars, retryVars, mainVars, launchVars,
    cacheVars, avdVars, sshKeyVars, hwVars, provVars, emuVars>>
otherThanMain == <<driverVars, localVars, retryVars, pollVars, launchVars,
    cacheVars, avdVars, sshKeyVars, hwVars, provVars, emuVars>>
otherThanLaunch == <<driverVars, localVars, retryVars, pollVars, mainVars,
    cacheVars, avdVars, sshKeyVars, hwVars, provVars, emuVars>>
otherThanCache == <<driverVars, localVars, retryVars, pollVars, mainVars,
    launchVars, avdVars, sshKeyVars, hwVars, provVars, emuVars>>
otherThanAvd == <<driverVars, localVars, retryVars, pollVars, mainVars,
    launchVars, cacheVars, sshKeyVars, hwVars, provVars, emuVars>>
otherThanSshKey == <<driverVars, localVars, retryVars, pollVars, mainVars,
    launchVars, cacheVars, avdVars, hwVars, provVars, emuVars>>
otherThanHw == <<driverVars, localVars, retryVars, pollVars, mainVars,
    launchVars, cacheVars, avdVars, sshKeyVars, provVars, emuVars>>
otherThanProv == <<driverVars, localVars, retryVars, pollVars, mainVars,
    launchVars, cacheVars, avdVars, sshKeyVars, hwVars, emuVars>>
otherThanEmu == <<driverVars, localVars, retryVars, pollVars, mainVars,
    launchVars, cacheVars, avdVars, sshKeyVars, hwVars, provVars>>
\* The driver's variables the handler of CreateDevices does not assign.
driverFrame == <<num, cfg, report_internal_ip, devices, failures, widx, ridx,
                 createLog, waitLog>>
\* What the handler of CreateDevices, reached from Retry, leaves alone.
retryFrame == <<driverFrame, localVars, pollVars, mainVars, launchVars,
    cacheVars, avdVars, sshKeyVars, hwVars, provVars, emuVars>>

----------------------------------------------------------------------------
\* Bounds of the model.
MaxNum == 3

\* Helpers on sequences.
Range(s) == {s[i] : i \in 1..Len(s)}
Last(s) == s[Len(s)]

----------------------------------------------------------------------------
(***************************************************************************)
(* Report (acloud.public.report).                                          *)
(***************************************************************************)
NewReport == [status |-> "UNKNOWN", devices |-> <<>>,
              devices_failing_boot |-> <<>>, errors |-> <<>>]

SetStatus(rep, status) == [rep EXCEPT !.status = status]

AddError(rep, error) == [rep EXCEPT !.errors = Append(@, error)]

AddData(rep, key, value) ==
    IF key = "devices"
    THEN [rep EXCEPT !.devices = Append(@, value)]
    ELSE [rep EXCEPT !.devices_failing_boot = Append(@, value)]

(***************************************************************************)
(* The environment of the driver.                                          *)
(***************************************************************************)
\* How a call of the factory's CreateInstance or of the compute client's
\* WaitForBoot can end.  "driver_error" is an errors.DriverError that is no
\* DeviceBootError; "other_error" is an exception outside the DriverError
\* hierarchy, such as the subprocess.CalledProcessError of a remote command.
CreateOutcomes == {"ok", "driver_error", "other_error"}
WaitOutcomes == {"ok", "boot_error", "driver_error", "other_error"}

\* GenerateInstanceName: a fresh name per call; the k-th call yields name k.
InstanceName(k) == <<"ins", k>>
\* GetInstanceIP(instance): the internal and external address of the instance.
GetInstanceIP(instance) == [internal |-> <<"int", instance>>,
                            external |-> <<"ext", instance>>]
\* str(e) of the exception a call on that instance raised.
ErrorText(kind, instance) == <<kind, instance>>

----------------------------------------------------------------------------
InitDriver ==
    /\ num \in 1..MaxNum
    /\ cfg \in [pub : BOOLEAN, priv : BOOLEAN]
    /\ report_internal_ip \in BOOLEAN
    /\ pc = "start"
    /\ devices = <<>>
    /\ failures = <<>>
    /\ widx = 1
    /\ ridx = 1
    /\ reporter = NewReport
    /\ result = "none"
    /\ createLog = <<>>
    /\ waitLog = <<>>

\* except errors.DriverError as e: reporter.AddError(str(e)); SetStatus(FAIL)
HandleDriverError_NoRecord(rep, error) == SetStatus(rep, "FAIL")

HandleDriverError(rep, error) == SetStatus(AddError(rep, error), "FAIL")

\* The except clauses: DeviceBootError is caught inside DevicePool.WaitForBoot,
\* every DriverError (DeviceBootError is one) by CreateDevices, nothing else.
CaughtByWaitForBoot_Nothing(outcome) == FALSE

CaughtByWaitForBoot(outcome) == outcome = "boot_error"

CaughtByCreateDevices(outcome) == outcome \in {"driver_error", "boot_error"}

\* An exception leaves the try block of CreateDevices: handled there when it
\* is a DriverError, and otherwise raised to the caller of CreateDevices.
LeaveByException(outcome, error) ==
    /\ pc' = "done"
    /\ IF CaughtByCreateDevices(outcome)
       THEN /\ reporter' = HandleDriverError(reporter, error)
            /\ result' = "report"
       ELSE /\ reporter' = reporter
            /\ result' = "raised"

\* CreateSshKeyPairIfNecessary(cfg), then DevicePool(device_factory).
\* keygen is how utils.CreateSshKeyPairIfNotExist ends when it is called.
CreateSshKeyPairIfNecessary(keygen) ==
    /\ pc = "start"
    /\ (keygen = "driver_error") => (cfg.pub /\ cfg.priv)
    /\ IF keygen = "ok"
       THEN /\ pc' = "create_loop"
            /\ UNCHANGED <<reporter, result>>
       ELSE LeaveByException(keygen, ErrorText(keygen, "ssh_key"))
    /\ UNCHANGED <<num, cfg, report_internal_ip, devices, failures, widx, ridx,
                   createLog, waitLog>>
    /\ UNCHANGED otherThanDriver

\* self.devices.append(avd.AndroidVirtualDevice(ip=ip, instance_name=instance))
PoolAppend_Front(devs, dev) == <<dev>> \o devs

PoolAppend(devs, dev) == Append(devs, dev)

\* for _ in range(num): the next call starts when the previous one is over.
MayCallCreateInstance_Overlapping ==
    pc \in {"create_loop", "in_create"} /\ Len(createLog) < num

MayCallCreateInstance == pc = "create_loop" /\ Len(createLog) < num

\* DevicePool.CreateDevices: instance = self._device_factory.CreateInstance()
\* is entered.
CreateInstanceCall ==
    /\ MayCallCreateInstance
    /\ createLog' = Append(createLog,
                           [name |-> InstanceName(Len(createLog) + 1),
                            outcome |-> "pending"])
    /\ pc' = "in_create"
    /\ UNCHANGED <<num, cfg, report_internal_ip, devices, failures, widx, ridx,
                   reporter, result, waitLog>>
    /\ UNCHANGED otherThanDriver

\* CreateInstance returns the instance name or raises; on return the device
\* joins the pool with its ip, and after the num-th device the loop is over.
CreateInstanceReturn(outcome) ==
    /\ pc = "in_create"
    /\ LET k == Len(createLog)
           instance == createLog[k].name
       IN /\ createLog' = [createLog EXCEPT ![k].outcome = outcome]
          /\ IF outcome = "ok"
             THEN /\ devices' = PoolAppend(devices,
                                    [ip |-> GetInstanceIP(instance),
                                     instance_name |-> instance])
                  /\ pc' = IF k < num THEN "create_loop" ELSE "wait_loop"
                  /\ UNCHANGED <<reporter, result>>
             ELSE /\ devices' = devices
                  /\ LeaveByException(outcome, ErrorText(outcome, instance))
    /\ UNCHANGED <<num, cfg, report_internal_ip, failures, widx, ridx, waitLog>>
    /\ UNCHANGED otherThanDriver

\* DevicePool.WaitForBoot: self._compute_client.WaitForBoot(device.instance_name)
\* is entered for the next device of the pool.
WaitForBootCall ==
    /\ pc = "wait_loop"
    /\ widx <= Len(devices)
    /\ waitLog' = Append(waitLog, [name |-> devices[widx].instance_name,
                                   outcome |-> "pending"])
    /\ pc' = "in_wait"
    /\ UNCHANGED <<num, cfg, report_internal_ip, devices, failures, widx, ridx,
                   reporter, result, createLog>>
    /\ UNCHANGED otherThanDriver

\* The boot-wait of one instance returns or raises.
WaitForBootReturn(outcome) ==
    /\ pc = "in_wait"
    /\ LET k == Len(waitLog)
           instance == waitLog[k].name
       IN /\ waitLog' = [waitLog EXCEPT ![k].outcome = outcome]
          /\ IF outcome = "ok" \/ CaughtByWaitForBoot(outcome)
             THEN /\ failures' =
                        IF outcome = "ok" THEN failures
                        ELSE [n \in DOMAIN failures \cup {instance} |->
                                 IF n = instance
                                 THEN ErrorText(outcome, instance)
                                 ELSE failures[n]]
                  /\ widx' = widx + 1
                  /\ pc' = "wait_loop"
                  /\ UNCHANGED <<reporter, result>>
             ELSE /\ UNCHANGED <<failures, widx>>
                  /\ LeaveByException(outcome, ErrorText(outcome, instance))
    /\ UNCHANGED <<num, cfg, report_internal_ip, devices, ridx, createLog>>
    /\ UNCHANGED otherThanDriver

\* if failures: BOOT_FAIL else: SUCCESS
BootStatus_AlwaysSuccess(fails) == "SUCCESS"

BootStatus(fails) == IF DOMAIN fails # {} THEN "BOOT_FAIL" ELSE "SUCCESS"

\* DevicePool.WaitForBoot returns failures; CreateDevices sets the status.
WaitForBootDone ==
    /\ pc = "wait_loop"
    /\ widx > Len(devices)
    /\ reporter' = SetStatus(reporter, BootStatus(failures))
    /\ ridx' = 1
    /\ pc' = "write"
    /\ UNCHANGED <<num, cfg, report_internal_ip, devices, failures, widx,
                   result, createLog, waitLog>>
    /\ UNCHANGED otherThanDriver

\* One iteration of "for device in device_pool.devices".
WriteDevice(rep, device, fails, internal) ==
    LET device_dict == [ip |-> IF internal THEN device.ip.internal
                                           ELSE device.ip.external,
                        instance_name |-> device.instance_name]
    IN IF device.instance_name \in DOMAIN fails
       THEN AddError(AddData(rep, "devices_failing_boot", device_dict),
                     fails[device.instance_name])
       ELSE AddData(rep, "devices", device_dict)

WriteResult ==
    /\ pc = "write"
    /\ ridx <= Len(devices)
    /\ reporter' = WriteDevice(reporter, devices[ridx], failures,
                               report_internal_ip)
    /\ ridx' = ridx + 1
    /\ UNCHANGED <<num, cfg, report_internal_ip, pc, devices, failures, widx,
                   result, createLog, waitLog>>
    /\ UNCHANGED otherThanDriver

\* return reporter
ReturnReport ==
    /\ pc = "write"
    /\ ridx > Len(devices)
    /\ pc' = "done"
    /\ result' = "report"
    /\ UNCHANGED <<num, cfg, report_internal_ip, devices, failures, widx, ridx,
                   reporter, createLog, waitLog>>
    /\ UNCHANGED otherThanDriver

NextDriver ==
    \/ \E keygen \in {"ok", "driver_error"} : CreateSshKeyPairIfNecessary(keygen)
    \/ CreateInstanceCall
    \/ \E outcome \in CreateOutcomes : CreateInstanceReturn(outcome)
    \/ WaitForBootCall
    \/ \E outcome \in WaitOutcomes : WaitForBootReturn(outcome)
    \/ WaitForBootDone
    \/ WriteResult
    \/ ReturnReport

----------------------------------------------------------------------------
(***************************************************************************)
(* Local instance creation: LocalImageLocalInstance._CreateAVD, run by     *)
(* concurrent acloud processes.                                            *)
(***************************************************************************)
MAX_INSTANCE_ID == 10
\* The largest id a user passes as --local-instance in the model.
MaxRequestId == 2

Procs == {"p1", "p2"}
NoProc == "nobody"
Ids == 1..MAX_INSTANCE_ID
RequestIds == 0..MaxRequestId

\* The ids earlier invocations left marked in use: the ids up to some k,
\* except at most one of them.
InitialInUseSets ==
    {S \in SUBSET Ids :
        \E k \in 0..MAX_INSTANCE_ID :
            S \subseteq 1..k /\ Cardinality((1..k) \ S) <= 1}

InitLocal ==
    /\ lpc = [p \in Procs |-> "start"]
    /\ spec_id \in [Procs -> RequestIds]
    /\ no_prompts \in [Procs -> BOOLEAN]
    /\ cand = [p \in Procs |-> 1]
    /\ ins_id = [p \in Procs |-> 0]
    /\ lreport = [p \in Procs |-> "none"]
    /\ pending = [p \in Procs |-> "none"]
    /\ lresult = [p \in Procs |-> "none"]
    /\ lockHolder = [i \in Ids |-> NoProc]
    /\ \E S \in InitialInUseSets : lockInUse = [i \in Ids |-> i \in S]
    /\ acquired = [p \in Procs |-> 0]
    /\ unlocks = [p \in Procs |-> 0]
    /\ marks = [p \in Procs |-> {}]
    /\ inUseAtStart = lockInUse
    /\ lerror = [p \in Procs |-> "none"]
    /\ launched = [p \in Procs |-> FALSE]

\* LocalInstanceLock: an exclusive lock file per instance id that also stores
\* the in-use mark.  Lock() takes the lock when no process holds it;
\* LockIfNotInUse() keeps it only when the stored mark is "not in use".
LockSucceeds(i) == lockHolder[i] = NoProc

LockIfNotInUseSucceeds(i) == lockHolder[i] = NoProc /\ ~lockInUse[i]

\* _CreateAVD ends without having taken a lock, returning a FAIL Report.
ReturnFailReport(p, error) ==
    /\ lreport' = [lreport EXCEPT ![p] = "FAIL"]
    /\ lerror' = [lerror EXCEPT ![p] = error]
    /\ lresult' = [lresult EXCEPT ![p] = "report"]
    /\ lpc' = [lpc EXCEPT ![p] = "done"]

\* utils.IsSupportedPlatform, then GetImageArtifactsPath.
StartCreateAVD(p, supported, artifacts) ==
    /\ lpc[p] = "start"
    /\ IF ~supported
       THEN ReturnFailReport(p, "none")
       ELSE IF ~artifacts
       THEN /\ lresult' = [lresult EXCEPT ![p] = "raised"]
            /\ lpc' = [lpc EXCEPT ![p] = "done"]
            /\ UNCHANGED <<lreport, lerror>>
       ELSE /\ lpc' = [lpc EXCEPT ![p] =
                          IF spec_id[p] # 0 THEN "lock_given" ELSE "scan"]
            /\ UNCHANGED <<lreport, lresult, lerror>>
    /\ UNCHANGED <<spec_id, no_prompts, cand, ins_id, pending, lockHolder,
                   lockInUse, acquired, unlocks, marks, inUseAtStart, launched>>
    /\ UNCHANGED otherThanLocal

\* if not ins_lock.Lock(): return the FAIL Report.
ReturnsWhenNotLocked_Never(locked) == FALSE

ReturnsWhenNotLocked(locked) == ~locked

\* if avd_spec.local_instance_id: ins_lock.Lock() on the id the user gave.
LockGivenId(p) ==
    /\ lpc[p] = "lock_given"
    /\ ins_id' = [ins_id EXCEPT ![p] = spec_id[p]]
    /\ LET locked == LockSucceeds(spec_id[p])
       IN /\ lockHolder' = IF locked
                           THEN [lockHolder EXCEPT ![spec_id[p]] = p]
                           ELSE lockHolder
          /\ acquired' = IF locked
                         THEN [acquired EXCEPT ![p] = @ + 1]
                         ELSE acquired
          /\ IF ReturnsWhenNotLocked(locked)
             THEN ReturnFailReport(p, "locked_by_another_process")
             ELSE /\ lpc' = [lpc EXCEPT ![p] = "try"]
                  /\ UNCHANGED <<lreport, lresult, lerror>>
    /\ UNCHANGED <<spec_id, no_prompts, cand, pending, lockInUse, unlocks,
                   marks, inUseAtStart, launched>>
    /\ UNCHANGED otherThanLocal

\* range(1, _MAX_INSTANCE_ID + 1): the candidate after candidate c.
NextCandidate_SkipOne(c) == c + 2

NextCandidate(c) == c + 1

\* One iteration of "for candidate_id in range(1, _MAX_INSTANCE_ID + 1)";
\* after the last candidate, "if not ins_id" returns the FAIL Report.
ScanCandidate(p) ==
    /\ lpc[p] = "scan"
    /\ IF LockIfNotInUseSucceeds(cand[p])
       THEN /\ ins_id' = [ins_id EXCEPT ![p] = cand[p]]
            /\ lockHolder' = [lockHolder EXCEPT ![cand[p]] = p]
            /\ acquired' = [acquired EXCEPT ![p] = @ + 1]
            /\ lpc' = [lpc EXCEPT ![p] = "try"]
            /\ UNCHANGED <<cand, lreport, lresult, lerror>>
       ELSE IF NextCandidate(cand[p]) <= MAX_INSTANCE_ID
       THEN /\ cand' = [cand EXCEPT ![p] = NextCandidate(@)]
            /\ UNCHANGED <<ins_id, lockHolder, acquired, lpc, lreport, lresult,
                           lerror>>
       ELSE /\ ReturnFailReport(p, "INSTANCES_IN_USE_MSG")
            /\ UNCHANGED <<cand, ins_id, lockHolder, acquired>>
    /\ UNCHANGED <<spec_id, no_prompts, pending, lockInUse, unlocks, marks,
                   inUseAtStart, launched>>
    /\ UNCHANGED otherThanLocal

\* ins_lock.SetInUse(True) by process p on its instance id.
SetInUse(p) ==
    /\ lockInUse' = [lockInUse EXCEPT ![ins_id[p]] = TRUE]
    /\ marks' = [marks EXCEPT ![p] = @ \cup {<<ins_id[p], lreport[p] # "none">>}]

\* The first statement of the try block: whether the lock is marked in use
\* before _CreateInstance runs.  declined: _CheckRunningCvd returned False.
MarksInUseBeforeCreate_Always(declined) == TRUE

MarksInUseBeforeCreate(declined) == declined

\* _CheckRunningCvd(ins_id, no_prompts).  existing: GetActiveCVD finds a
\* running instance with that id; answer_yes: the user's answer to the prompt.
CheckRunningCvd(p, existing, answer_yes) ==
    /\ lpc[p] = "try"
    /\ LET declined == existing /\ ~(no_prompts[p] \/ answer_yes)
       IN /\ IF MarksInUseBeforeCreate(declined)
             THEN SetInUse(p)
             ELSE UNCHANGED <<lockInUse, marks>>
          /\ IF declined
             THEN /\ pending' = [pending EXCEPT ![p] = "exit"]
                  /\ lpc' = [lpc EXCEPT ![p] = "finally"]
             ELSE /\ lpc' = [lpc EXCEPT ![p] = "create_instance"]
                  /\ UNCHANGED pending
    /\ UNCHANGED <<spec_id, no_prompts, cand, ins_id, lreport, lresult,
                   lockHolder, acquired, unlocks, inUseAtStart, lerror,
                   launched>>
    /\ UNCHANGED otherThanLocal

\* _CreateInstance up to the start of launch_cvd; raises: an exception before
\* the launch_cvd process is started.
CreateInstanceBegin(p, raises) ==
    /\ lpc[p] = "create_instance"
    /\ IF raises
       THEN /\ pending' = [pending EXCEPT ![p] = "raise"]
            /\ lpc' = [lpc EXCEPT ![p] = "finally"]
       ELSE /\ lpc' = [lpc EXCEPT ![p] = "launching"]
            /\ UNCHANGED pending
    /\ launched' = [launched EXCEPT ![p] = ~raises]
    /\ UNCHANGED <<spec_id, no_prompts, cand, ins_id, lreport, lresult,
                   lockHolder, lockInUse, acquired, unlocks, marks,
                   inUseAtStart, lerror>>
    /\ UNCHANGED otherThanLocal

\* The status of the Report _CreateInstance returns.
LaunchOutcomes == {"launch_fail", "active", "not_active", "raise"}

ReportStatus(outcome) == IF outcome = "active" THEN "SUCCESS" ELSE "BOOT_FAIL"

\* The rest of _CreateInstance: launch_cvd ends (LaunchCVDFail on a non-zero
\* return code or the timeout's kill), GetActiveCVD, the Report; or an
\* exception other than LaunchCVDFail, which leaves _CreateAVD without Report.
CreateInstanceEnd(p, outcome) ==
    /\ lpc[p] = "launching"
    /\ IF outcome = "raise"
       THEN /\ pending' = [pending EXCEPT ![p] = "raise"]
            /\ lpc' = [lpc EXCEPT ![p] = "finally"]
            /\ UNCHANGED lreport
       ELSE /\ lreport' = [lreport EXCEPT ![p] = ReportStatus(outcome)]
            /\ lpc' = [lpc EXCEPT ![p] = "set_in_use"]
            /\ UNCHANGED pending
    /\ lerror' = [lerror EXCEPT ![p] =
                     IF outcome \in {"launch_fail", "not_active"}
                     THEN outcome ELSE @]
    /\ UNCHANGED <<spec_id, no_prompts, cand, ins_id, lresult, lockHolder,
                   lockInUse, acquired, unlocks, marks, inUseAtStart, launched>>
    /\ UNCHANGED otherThanLocal

\* ins_lock.SetInUse(True); return result_report
SetInUseAfterReport(p) ==
    /\ lpc[p] = "set_in_use"
    /\ SetInUse(p)
    /\ pending' = [pending EXCEPT ![p] = "return"]
    /\ lpc' = [lpc EXCEPT ![p] = "finally"]
    /\ UNCHANGED <<spec_id, no_prompts, cand, ins_id, lreport, lresult,
                   lockHolder, acquired, unlocks, inUseAtStart, lerror,
                   launched>>
    /\ UNCHANGED otherThanLocal

\* finally: ins_lock.Unlock() runs however the try block is left.
UnlocksOnLeave_ReturnOnly(how) == how = "return"

UnlocksOnLeave(how) == TRUE

LeaveCreateAVD(p) ==
    /\ lpc[p] = "finally"
    /\ IF UnlocksOnLeave(pending[p])
       THEN /\ lockHolder' = [lockHolder EXCEPT ![ins_id[p]] = NoProc]
            /\ unlocks' = [unlocks EXCEPT ![p] = @ + 1]
       ELSE UNCHANGED <<lockHolder, unlocks>>
    /\ lresult' = [lresult EXCEPT ![p] =
                      CASE pending[p] = "return" -> "report"
                        [] pending[p] = "raise" -> "raised"
                        [] OTHER -> "exit"]
    /\ lpc' = [lpc EXCEPT ![p] = "done"]
    /\ UNCHANGED <<spec_id, no_prompts, cand, ins_id, lreport, pending,
                   lockInUse, acquired, marks, inUseAtStart, lerror, launched>>
    /\ UNCHANGED otherThanLocal

NextLocal ==
    \E p \in Procs :
        \/ \E supported, artifacts \in BOOLEAN : StartCreateAVD(p, supported, artifacts)
        \/ LockGivenId(p)
        \/ ScanCandidate(p)
        \/ \E existing, answer_yes \in BOOLEAN : CheckRunningCvd(p, existing, answer_yes)
        \/ \E raises \in BOOLEAN : CreateInstanceBegin(p, raises)
        \/ \E outcome \in LaunchOutcomes : CreateInstanceEnd(p, outcome)
        \/ SetInUseAfterReport(p)
        \/ LeaveCreateAVD(p)

----------------------------------------------------------------------------
(***************************************************************************)
(* utils.Retry, and the two remote-shell helpers that call it through      *)
(* utils.RetryExceptionType:                                               *)
(*   "ShellCmdWithRetry"  : CvdComputeClient.ShellCmdWithRetry, functor    *)
(*                          _SshLogOutput (cvd_compute_client_multi_stage)  *)
(*   "_ShellCmdWithRetry" : RemoteInstanceDeviceFactory._ShellCmdWithRetry, *)
(*                          functor subprocess.check_call                  *)
(***************************************************************************)
MaxRetries == 2

RemoteShellCallers == {"ShellCmdWithRetry", "_ShellCmdWithRetry"}
\* Exit statuses of the ssh process: 255 is ssh's own "failed to connect",
\* a negative status is a process killed by a signal (the timeout's kill).
ExitCodes == {0, 1, 2, 255, -9}
\* The exception types a caller of Retry can name or a functor can raise.
ExceptionTypes == {"ValueError", "KeyError"}

\* How a call of functor ends.
Returns(value) == [kind |-> "return", what |-> value]
Raises(exception) == [kind |-> "raise", what |-> exception]

FunctorOutcomes ==
    {Returns(v) : v \in {"v1", "v2"}} \cup {Raises(e) : e \in ExceptionTypes}

\* _SshLogOutput: what the exit status of the ssh process is turned into.
SshLogOutput_AllConnection(returncode) ==
    IF returncode # 0 THEN Raises("DeviceConnectionError") ELSE Returns("None")

SshLogOutput(returncode) ==
    IF returncode = 255 THEN Raises("DeviceConnectionError")
    ELSE IF returncode # 0 THEN Raises("CalledProcessError")
    ELSE Returns("None")

\* subprocess.check_call(cmd, shell=True)
CheckCall(returncode) ==
    IF returncode # 0 THEN Raises("CalledProcessError") ELSE Returns("0")

\* The module constants of the two helpers.
SSH_CMD_MAX_RETRY(who) == IF who = "ShellCmdWithRetry" THEN 4 ELSE 2
SSH_CMD_RETRY_SLEEP == 3
DEFAULT_RETRY_BACKOFF_FACTOR == 1
\* exception_types of the helper's RetryExceptionType call.
RetriedType(who) ==
    IF who = "ShellCmdWithRetry" THEN "DeviceConnectionError"
    ELSE "CalledProcessError"
RemoteFunctor(who, returncode) ==
    IF who = "ShellCmdWithRetry" THEN SshLogOutput(returncode)
    ELSE CheckCall(returncode)

RECURSIVE Pow(_, _)
Pow(b, e) == IF e = 0 THEN 1 ELSE b * Pow(b, e - 1)

\* The sleep before the next attempt.
SleepSeconds(multiplier, factor, count) ==
    IF factor # 1 THEN multiplier * Pow(factor, count - 1)
    ELSE multiplier * count

\* attempt_count <= max_retries: the loop condition, and the condition of the
\* except clause for another attempt.
RetriesLeft_OneFewer(count, retries) == count < retries

RetriesLeft(count, retries) == count <= retries

InitRetry ==
    /\ caller \in {"Retry"} \cup RemoteShellCallers
    /\ IF caller = "Retry"
       THEN /\ max_retries \in 0..MaxRetries
            /\ retry_types \in SUBSET ExceptionTypes
            /\ sleep_multiplier \in {0, 1}
            /\ retry_backoff_factor \in {1, 2}
       ELSE /\ max_retries = SSH_CMD_MAX_RETRY(caller)
            /\ retry_types = {RetriedType(caller)}
            /\ sleep_multiplier = SSH_CMD_RETRY_SLEEP
            /\ retry_backoff_factor = DEFAULT_RETRY_BACKOFF_FACTOR
    /\ attempt_count = 0
    /\ rpc = "loop"
    /\ rresult = [kind |-> "none", what |-> "none", call |-> 0]
    /\ callLog = <<>>
    /\ sleeps = <<>>

\* One pass of "while attempt_count <= max_retries": the call of functor,
\* whose end is entry.outcome, and the except clause.  When the condition is
\* false the function ends without a return statement.
RetryAttempt(entry) ==
    /\ rpc = "loop"
    /\ IF RetriesLeft(attempt_count, max_retries)
       THEN LET count == attempt_count + 1
                out == entry.outcome
            IN /\ attempt_count' = count
               /\ callLog' = Append(callLog, entry)
               /\ IF out.kind = "return"
                  THEN /\ rresult' = [kind |-> "returned", what |-> out.what,
                                      call |-> count]
                       /\ rpc' = "done"
                       /\ sleeps' = sleeps
                  ELSE IF out.what \in retry_types
                          /\ RetriesLeft(count, max_retries)
                       THEN /\ sleeps' = Append(sleeps,
                                   SleepSeconds(sleep_multiplier,
                                                retry_backoff_factor, count))
                            /\ UNCHANGED <<rresult, rpc>>
                       ELSE /\ rresult' = [kind |-> "raised", what |-> out.what,
                                           call |-> count]
                            /\ rpc' = "done"
                            /\ sleeps' = sleeps
       ELSE /\ rresult' = [kind |-> "returned", what |-> "None", call |-> 0]
            /\ rpc' = "done"
            /\ UNCHANGED <<attempt_count, callLog, sleeps>>
    /\ UNCHANGED <<caller, retry_types, max_retries, sleep_multiplier,
                   retry_backoff_factor>>

\* Retry called with an arbitrary functor.
CallFunctor(outcome) ==
    /\ caller = "Retry"
    /\ RetryAttempt([outcome |-> outcome])
    /\ UNCHANGED otherThanRetry

\* One attempt of a remote-shell helper: the ssh process ends with returncode.
RunRemoteCommand(returncode) ==
    /\ caller \in RemoteShellCallers
    /\ RetryAttempt([returncode |-> returncode,
                     outcome |-> RemoteFunctor(caller, returncode)])
    /\ UNCHANGED otherThanRetry

\* The driver's outcome kind of an exception of the remote-shell helpers:
\* the connection error is an errors.DriverError, CalledProcessError is not.
ExceptionOutcome(exception) ==
    IF exception = "DeviceConnectionError" THEN "driver_error"
    ELSE "other_error"

\* The exception of a remote-shell helper leaves the factory's or the compute
\* client's method and reaches the try block of CreateDevices.
RaiseIntoCreateDevices ==
    /\ caller \in RemoteShellCallers
    /\ rpc = "done"
    /\ rresult.kind = "raised"
    /\ ~ CaughtByWaitForBoot(ExceptionOutcome(rresult.what))
    /\ rpc' = "propagated"
    /\ LeaveByException(ExceptionOutcome(rresult.what),
                        ErrorText(rresult.what, InstanceName(1)))
    /\ UNCHANGED <<caller, retry_types, max_retries, sleep_multiplier,
                   retry_backoff_factor, attempt_count, rresult, callLog, sleeps>>
    /\ UNCHANGED retryFrame

NextRetry ==
    \/ \E outcome \in FunctorOutcomes : CallFunctor(outcome)
    \/ \E returncode \in ExitCodes : RunRemoteCommand(returncode)
    \/ RaiseIntoCreateDevices

----------------------------------------------------------------------------
(***************************************************************************)
(* utils.PollAndWait.  The clock advances by itself (Tick) while the loop  *)
(* runs; it is followed up to MaxClock, past every timeout of the model.   *)
(***************************************************************************)
MaxTimeout == 2
MaxPolls == 3
MaxClock == MaxTimeout + 2

Min(a, b) == IF a < b THEN a ELSE b

\* timeout_secs: "If 0 or less than zero, the function will run once".
InitPoll ==
    /\ timeout_secs \in (-1)..MaxTimeout
    /\ sleep_interval_secs \in {0, 1}
    /\ expected_return \in BOOLEAN
    /\ start = 0
    /\ now = 0
    /\ ppc = "start"
    /\ return_value = ~ expected_return
    /\ polls = 0
    /\ presult = "none"

\* start = time.time()
PollStart ==
    /\ ppc = "start"
    /\ start' = now
    /\ ppc' = "call"
    /\ UNCHANGED <<timeout_secs, sleep_interval_secs, expected_return, now,
                   return_value, polls, presult>>
    /\ UNCHANGED otherThanPoll

\* return_value = func(*args, **kwargs)
PollCall(value) ==
    /\ ppc = "call"
    /\ return_value' = value
    /\ polls' = Min(polls + 1, MaxPolls)
    /\ ppc' = "check"
    /\ UNCHANGED <<timeout_secs, sleep_interval_secs, expected_return, start,
                   now, presult>>
    /\ UNCHANGED otherThanPoll

\* time.time() - start > timeout_secs
TimedOut_Never(clock, since, timeout) == FALSE

TimedOut(clock, since, timeout) == clock - since > timeout

\* The if / elif / else after the call: return, raise timeout_exception, or
\* sleep sleep_interval_secs and go round again.
PollCheck ==
    /\ ppc = "check"
    /\ IF return_value = expected_return
       THEN /\ presult' = "returned"
            /\ ppc' = "done"
            /\ now' = now
       ELSE IF TimedOut(now, start, timeout_secs)
            THEN /\ presult' = "timeout_exception"
                 /\ ppc' = "done"
                 /\ now' = now
            ELSE /\ now' = IF sleep_interval_secs > 0
                           THEN Min(now + sleep_interval_secs, MaxClock)
                           ELSE now
                 /\ ppc' = "call"
                 /\ presult' = presult
    /\ UNCHANGED <<timeout_secs, sleep_interval_secs, expected_return, start,
                   return_value, polls>>
    /\ UNCHANGED otherThanPoll

\* Time passes while func runs or between two statements of the loop.
Tick ==
    /\ ppc \in {"call", "check"}
    /\ now < MaxClock
    /\ now' = now + 1
    /\ UNCHANGED <<timeout_secs, sleep_interval_secs, expected_return, start,
                   ppc, return_value, polls, presult>>
    /\ UNCHANGED otherThanPoll

NextPoll ==
    \/ PollStart
    \/ \E value \in BOOLEAN : PollCall(value)
    \/ PollCheck
    \/ Tick

----------------------------------------------------------------------------
(***************************************************************************)
(* acloud_main.main and create.Run: one invocation of the acloud process.  *)
(***************************************************************************)
Commands == {"create", "create_cf", "setup", "invalid"}
AvdTypes == {"gce", "cuttlefish"}
\* The values of spec.instance_type and spec.image_source.  AVDSpec itself
\* sets "local" or "remote"; GetAvdCreatorClass accepts any value.
InstanceTypes == {"local", "remote", "unknown"}
ImageSources == {"local", "remote", "unknown"}

\* None, where a Report is expected.
NoReport == [status |-> "NONE", devices |-> <<>>,
             devices_failing_boot |-> <<>>, errors |-> <<>>]

\* The Reports a creation can return: a booted device, a failure without a
\* device, a device that failed to boot.
CreateReports ==
    LET device == [ip |-> "ip", instance_name |-> InstanceName(1)]
    IN {SetStatus(AddData(NewReport, "devices", device), "SUCCESS"),
        SetStatus(AddError(NewReport, "error"), "FAIL"),
        SetStatus(AddError(AddData(NewReport, "devices_failing_boot", device),
                           "error"), "BOOT_FAIL")}

\* create.GetAvdCreatorClass: the class, or "raise" for
\* errors.UnsupportedInstanceImageType.
GetAvdCreatorClass_OneForLocalImage(type, source) ==
    IF type = "remote" /\ source = "local" THEN "LocalImageLocalInstance"
    ELSE IF type = "local" /\ source = "local" THEN "LocalImageLocalInstance"
    ELSE IF type = "remote" /\ source = "remote" THEN "RemoteImageRemoteInstance"
    ELSE IF type = "local" /\ source = "remote" THEN "RemoteImageLocalInstance"
    ELSE "raise"

GetAvdCreatorClass_Default(type, source) ==
    IF type = "remote" /\ source = "local" THEN "LocalImageRemoteInstance"
    ELSE IF type = "local" /\ source = "local" THEN "LocalImageLocalInstance"
    ELSE IF type = "remote" /\ source = "remote" THEN "RemoteImageRemoteInstance"
    ELSE "RemoteImageLocalInstance"

GetAvdCreatorClass(type, source) ==
    IF type = "remote" /\ source = "local" THEN "LocalImageRemoteInstance"
    ELSE IF type = "local" /\ source = "local" THEN "LocalImageLocalInstance"
    ELSE IF type = "remote" /\ source = "remote" THEN "RemoteImageRemoteInstance"
    ELSE IF type = "local" /\ source = "remote" THEN "RemoteImageLocalInstance"
    ELSE "raise"

\* The exit status of the process: the module's last statement is
\* main(sys.argv[1:]), so the value main returns is not passed to sys.exit;
\* an uncaught exception ends the process with status 1, sys.exit() with 0.
ProcessExitCode(how) == IF how = "raised" THEN 1 ELSE 0

InitMain ==
    /\ which \in Commands
    /\ avd_type \in AvdTypes
    /\ report_file \in BOOLEAN
    /\ mpc = "main"
    /\ spec_outcome = "none"
    /\ instance_type = "none"
    /\ image_source = "none"
    /\ avd_creator = "none"
    /\ instantiated = FALSE
    /\ create_called = FALSE
    /\ run_report = NoReport
    /\ main_report = NoReport
    /\ dumped = FALSE
    /\ ended = "none"
    /\ main_return = -1
    /\ exit_code = -1

\* The process ends.
EndProcess(how, value) ==
    /\ mpc' = "done"
    /\ ended' = how
    /\ main_return' = value
    /\ exit_code' = ProcessExitCode(how)

\* main: the if / elif chain on args.which.
Dispatch ==
    /\ mpc = "main"
    /\ IF which = "create" /\ avd_type = "gce" THEN
           mpc' = "legacy" /\ UNCHANGED <<ended, main_return, exit_code>>
       ELSE IF which = "create" THEN
           mpc' = "pre_run_check" /\ UNCHANGED <<ended, main_return, exit_code>>
       ELSE IF which = "create_cf" THEN
           mpc' = "legacy" /\ UNCHANGED <<ended, main_return, exit_code>>
       ELSE IF which = "setup" THEN
           mpc' = "finish" /\ UNCHANGED <<ended, main_return, exit_code>>
       ELSE EndProcess("returned", 2)
    /\ UNCHANGED <<which, avd_type, report_file, spec_outcome, instance_type,
                   image_source, avd_creator, instantiated, create_called,
                   run_report, main_report, dumped>>
    /\ UNCHANGED otherThanMain

\* report = device_driver.CreateAndroidVirtualDevices(...) or
\* report = create_cuttlefish_action.CreateDevices(...)
LegacyCreate(rep) ==
    /\ mpc = "legacy"
    /\ main_report' = rep
    /\ mpc' = "finish"
    /\ UNCHANGED <<which, avd_type, report_file, spec_outcome, instance_type,
                   image_source, avd_creator, instantiated, create_called,
                   run_report, dumped, ended, main_return, exit_code>>
    /\ UNCHANGED otherThanMain

\* create.PreRunCheck: when setup is missing and the user declines to run
\* it, sys.exit().
PreRunCheck(run_setup, answer_yes) ==
    /\ mpc = "pre_run_check"
    /\ IF run_setup /\ ~ answer_yes
       THEN EndProcess("sys_exit", -1)
       ELSE mpc' = "avd_spec" /\ UNCHANGED <<ended, main_return, exit_code>>
    /\ UNCHANGED <<which, avd_type, report_file, spec_outcome, instance_type,
                   image_source, avd_creator, instantiated, create_called,
                   run_report, main_report, dumped>>
    /\ UNCHANGED otherThanMain

\* spec = avd_spec.AVDSpec(args): raises, or yields the two properties.
ConstructSpec(outcome, type, source) ==
    /\ mpc = "avd_spec"
    /\ spec_outcome' = outcome
    /\ IF outcome = "error"
       THEN /\ EndProcess("raised", -1)
            /\ UNCHANGED <<instance_type, image_source>>
       ELSE /\ instance_type' = type
            /\ image_source' = source
            /\ mpc' = "select"
            /\ UNCHANGED <<ended, main_return, exit_code>>
    /\ UNCHANGED <<which, avd_type, report_file, avd_creator, instantiated,
                   create_called, run_report, main_report, dumped>>
    /\ UNCHANGED otherThanMain

\* avd_creator_class = GetAvdCreatorClass(spec.instance_type, spec.image_source)
SelectCreator ==
    /\ mpc = "select"
    /\ LET class == GetAvdCreatorClass(instance_type, image_source)
       IN IF class = "raise"
          THEN /\ EndProcess("raised", -1)
               /\ UNCHANGED avd_creator
          ELSE /\ avd_creator' = class
               /\ mpc' = "instantiate"
               /\ UNCHANGED <<ended, main_return, exit_code>>
    /\ UNCHANGED <<which, avd_type, report_file, spec_outcome, instance_type,
                   image_source, instantiated, create_called, run_report,
                   main_report, dumped>>
    /\ UNCHANGED otherThanMain

\* avd_creator = avd_creator_class()
Instantiate ==
    /\ mpc = "instantiate"
    /\ instantiated' = TRUE
    /\ mpc' = "create"
    /\ UNCHANGED <<which, avd_type, report_file, spec_outcome, instance_type,
                   image_source, avd_creator, create_called, run_report,
                   main_report, dumped, ended, main_return, exit_code>>
    /\ UNCHANGED otherThanMain

\* report = avd_creator.Create(spec), then
\* "if report and args.report_file: report.Dump(args.report_file)";
\* Run has no return statement.  raises: Create raised.
Create(rep, raises) ==
    /\ mpc = "create"
    /\ create_called' = TRUE
    /\ IF raises
       THEN /\ EndProcess("raised", -1)
            /\ UNCHANGED <<run_report, dumped>>
       ELSE /\ run_report' = rep
            /\ dumped' = report_file
            /\ mpc' = "finish"
            /\ UNCHANGED <<ended, main_return, exit_code>>
    /\ UNCHANGED <<which, avd_type, report_file, spec_outcome, instance_type,
                   image_source, avd_creator, instantiated, main_report>>
    /\ UNCHANGED otherThanMain

\* main: "if report:" Dump it and return 1 when it has errors; return 0.
Finish ==
    /\ mpc = "finish"
    /\ dumped' = (dumped \/ main_report # NoReport)
    /\ IF main_report # NoReport /\ main_report.errors # <<>>
       THEN EndProcess("returned", 1)
       ELSE EndProcess("returned", 0)
    /\ UNCHANGED <<which, avd_type, report_file, spec_outcome, instance_type,
                   image_source, avd_creator, instantiated, create_called,
                   run_report, main_report>>
    /\ UNCHANGED otherThanMain

NextMain ==
    \/ Dispatch
    \/ \E rep \in CreateReports : LegacyCreate(rep)
    \/ \E run_setup, answer_yes \in BOOLEAN : PreRunCheck(run_setup, answer_yes)
    \/ \E outcome \in {"ok", "error"}, type \in InstanceTypes,
          source \in ImageSources : ConstructSpec(outcome, type, source)
    \/ SelectCreator
    \/ Instantiate
    \/ \E rep \in CreateReports, raises \in BOOLEAN : Create(rep, raises)
    \/ Finish

----------------------------------------------------------------------------
(***************************************************************************)
(* LocalImageLocalInstance._CreateInstance and _LaunchCvd: launch_cvd runs *)
(* as a child process under a kill timer, and its end becomes the Report.  *)
(***************************************************************************)
MaxLaunchId == 2
MaxBootTimeout == 2

\* Exit statuses launch_cvd ends with by itself; SIGKILL is the status of a
\* process ended by process.kill.
LaunchReturnCodes == {0, 1, 2}
SIGKILL == -9

\* instance.GetLocalInstanceName, instance.GetLocalInstanceRuntimeDir
GetLocalInstanceName(id) == <<"local-instance", id>>
GetLocalInstanceRuntimeDir(id) == <<"acloud_cvd_temp", id, "cuttlefish_runtime">>

\* Report.AddDevice and Report.AddDeviceBootFailure
AddDevice(rep, name, ip) ==
    AddData(rep, "devices", [ip |-> ip, instance_name |-> name])
AddDeviceBootFailure(rep, name, ip, error) ==
    AddError(AddData(rep, "devices_failing_boot",
                     [ip |-> ip, instance_name |-> name]), error)

\* The message of errors.LaunchCVDFail: "Can't launch cuttlefish AVD. Return
\* code:%s. \nFor more detail: %s/launcher.log".
LaunchErrorText(returncode, runtime_dir) ==
    [what |-> "LaunchCVDFail", returncode |-> returncode,
     log |-> <<runtime_dir, "launcher.log">>]
\* err_msg of the branch where GetActiveCVD found no instance.
NotActiveText == [what |-> "cvd_status return non-zero after launch_cvd"]

InitLaunch ==
    /\ cvd_id \in 1..MaxLaunchId
    /\ cvd_timeout \in 1..MaxBootTimeout
    /\ cvd_clock = 0
    /\ cvd_pc = "launch"
    /\ cvd_proc = "none"
    /\ cvd_returncode = 0
    /\ cvd_timer = "none"
    /\ cvd_killed = FALSE
    /\ cvd_report = NewReport
    /\ cvd_result = "none"

\* _LaunchCvd up to process.wait(): the runtime directory is made anew
\* (os.makedirs can raise OSError, which nothing catches), launch_cvd is
\* started and the kill timer armed.
StartLaunchCvd(makedirs_ok) ==
    /\ cvd_pc = "launch"
    /\ IF makedirs_ok
       THEN /\ cvd_proc' = "running"
            /\ cvd_timer' = "started"
            /\ cvd_pc' = "wait"
            /\ UNCHANGED cvd_result
       ELSE /\ cvd_result' = "raised"
            /\ cvd_pc' = "done"
            /\ UNCHANGED <<cvd_proc, cvd_timer>>
    /\ UNCHANGED <<cvd_id, cvd_timeout, cvd_clock, cvd_returncode, cvd_killed,
                   cvd_report>>
    /\ UNCHANGED otherThanLaunch

\* Time passes while launch_cvd runs.
LaunchTick ==
    /\ cvd_proc = "running"
    /\ cvd_clock < cvd_timeout
    /\ cvd_clock' = cvd_clock + 1
    /\ UNCHANGED <<cvd_id, cvd_timeout, cvd_pc, cvd_proc, cvd_returncode,
                   cvd_timer, cvd_killed, cvd_report, cvd_result>>
    /\ UNCHANGED otherThanLaunch

\* launch_cvd ends by itself.
ProcessExits(returncode) ==
    /\ cvd_proc = "running"
    /\ cvd_proc' = "exited"
    /\ cvd_returncode' = returncode
    /\ UNCHANGED <<cvd_id, cvd_timeout, cvd_clock, cvd_pc, cvd_timer,
                   cvd_killed, cvd_report, cvd_result>>
    /\ UNCHANGED otherThanLaunch

\* threading.Timer(timeout, process.kill) fires: a running process is
\* killed, a process that has already ended keeps its exit status.
TimerFires ==
    /\ cvd_timer = "started"
    /\ cvd_clock >= cvd_timeout
    /\ cvd_timer' = "fired"
    /\ IF cvd_proc = "running"
       THEN /\ cvd_proc' = "exited"
            /\ cvd_returncode' = SIGKILL
            /\ cvd_killed' = TRUE
       ELSE UNCHANGED <<cvd_proc, cvd_returncode, cvd_killed>>
    /\ UNCHANGED <<cvd_id, cvd_timeout, cvd_clock, cvd_pc, cvd_report,
                   cvd_result>>
    /\ UNCHANGED otherThanLaunch

\* except errors.LaunchCVDFail as launch_error, in _CreateInstance
CatchesLaunchCVDFail_Never == FALSE

CatchesLaunchCVDFail == TRUE

\* process.wait() returns and the timer is cancelled; returncode 0 returns
\* from _LaunchCvd, any other raises LaunchCVDFail, which _CreateInstance
\* turns into the BOOT_FAIL Report it returns.
WaitReturns ==
    /\ cvd_pc = "wait"
    /\ cvd_proc = "exited"
    /\ cvd_timer' = IF cvd_timer = "started" THEN "cancelled" ELSE cvd_timer
    /\ IF cvd_returncode = 0
       THEN /\ cvd_pc' = "get_active"
            /\ UNCHANGED <<cvd_report, cvd_result>>
       ELSE /\ cvd_pc' = "done"
            /\ IF CatchesLaunchCVDFail
               THEN /\ cvd_report' =
                          AddDeviceBootFailure(
                              SetStatus(cvd_report, "BOOT_FAIL"),
                              GetLocalInstanceName(cvd_id), "localhost",
                              LaunchErrorText(cvd_returncode,
                                  GetLocalInstanceRuntimeDir(cvd_id)))
                    /\ cvd_result' = "report"
               ELSE /\ cvd_report' = cvd_report
                    /\ cvd_result' = "raised"
    /\ UNCHANGED <<cvd_id, cvd_timeout, cvd_clock, cvd_proc, cvd_returncode,
                   cvd_killed>>
    /\ UNCHANGED otherThanLaunch

\* active_ins = list_instance.GetActiveCVD(local_instance_id) and the Report
\* of the two branches.
GetActiveCVD(active) ==
    /\ cvd_pc = "get_active"
    /\ cvd_report' =
           IF active
           THEN AddDevice(SetStatus(cvd_report, "SUCCESS"),
                          GetLocalInstanceName(cvd_id), "localhost")
           ELSE AddDeviceBootFailure(SetStatus(cvd_report, "BOOT_FAIL"),
                                     GetLocalInstanceName(cvd_id), "localhost",
                                     NotActiveText)
    /\ cvd_result' = "report"
    /\ cvd_pc' = "done"
    /\ UNCHANGED <<cvd_id, cvd_timeout, cvd_clock, cvd_proc, cvd_returncode,
                   cvd_timer, cvd_killed>>
    /\ UNCHANGED otherThanLaunch

NextLaunch ==
    \/ \E makedirs_ok \in BOOLEAN : StartLaunchCvd(makedirs_ok)
    \/ LaunchTick
    \/ \E returncode \in LaunchReturnCodes : ProcessExits(returncode)
    \/ TimerFires
    \/ WaitReturns
    \/ \E active \in BOOLEAN : GetActiveCVD(active)

----------------------------------------------------------------------------
(***************************************************************************)
(* RemoteImageLocalInstance._DownloadAndProcessImageFiles, invoked again   *)
(* and again over the image directories kept under _TEMP_IMAGE_FOLDER.     *)
(***************************************************************************)
MaxInvocations == 3
BuildIds == {"b1", "b2"}

\* _DownloadRemoteImage (DownloadArtifact, then utils.Decompress),
\* _UnpackBootImage, _AclCfImageFiles.
ProcessSteps == <<"download", "decompress", "unpack_boot_image", "acl">>
\* os.path.join(_TEMP_IMAGE_FOLDER, build_id)
ExtractPath(build_id) == <<"acloud_image_artifacts", "cuttlefish", build_id>>

InitCache ==
    /\ cache_dirs = [b \in BuildIds |-> [exists |-> FALSE, done |-> {}]]
    /\ ic_count = 0
    /\ ic_pc = "idle"
    /\ ic_build = "b1"
    /\ ic_existed = FALSE
    /\ ic_steps = <<>>
    /\ ic_result = [kind |-> "none", path |-> <<>>]

\* if not os.path.exists(extract_path): the processing is skipped when the
\* directory exists.
SkipsProcessing_Never(exists) == FALSE

SkipsProcessing(exists) == exists

\* _DownloadAndProcessImageFiles is entered for build_id: an existing
\* directory is returned as it is, otherwise os.makedirs(extract_path).
BeginDownloadAndProcess(build_id) ==
    /\ ic_pc = "idle"
    /\ ic_count < MaxInvocations
    /\ ic_count' = ic_count + 1
    /\ ic_build' = build_id
    /\ ic_existed' = cache_dirs[build_id].exists
    /\ ic_steps' = <<>>
    /\ IF SkipsProcessing(cache_dirs[build_id].exists)
       THEN /\ ic_result' = [kind |-> "returned",
                             path |-> ExtractPath(build_id)]
            /\ UNCHANGED <<cache_dirs, ic_pc>>
       ELSE /\ cache_dirs' = [cache_dirs EXCEPT ![build_id].exists = TRUE]
            /\ ic_pc' = "processing"
            /\ ic_result' = [kind |-> "none", path |-> <<>>]
    /\ UNCHANGED otherThanCache

\* The next processing step runs on extract_path: it succeeds, or it raises
\* and the exception leaves _DownloadAndProcessImageFiles; after the last
\* step extract_path is returned.
RunProcessStep(ok) ==
    /\ ic_pc = "processing"
    /\ LET step == ProcessSteps[Len(ic_steps) + 1]
       IN /\ ic_steps' = Append(ic_steps, step)
          /\ IF ok
             THEN /\ cache_dirs' =
                        [cache_dirs EXCEPT ![ic_build].done = @ \cup {step}]
                  /\ IF Len(ic_steps) + 1 = Len(ProcessSteps)
                     THEN /\ ic_result' = [kind |-> "returned",
                                           path |-> ExtractPath(ic_build)]
                          /\ ic_pc' = "idle"
                     ELSE UNCHANGED <<ic_result, ic_pc>>
             ELSE /\ ic_result' = [kind |-> "raised", path |-> <<>>]
                  /\ ic_pc' = "idle"
                  /\ UNCHANGED cache_dirs
    /\ UNCHANGED <<ic_count, ic_build, ic_existed>>
    /\ UNCHANGED otherThanCache

NextCache ==
    \/ \E build_id \in BuildIds : BeginDownloadAndProcess(build_id)
    \/ \E ok \in BOOLEAN : RunProcessStep(ok)

----------------------------------------------------------------------------
(***************************************************************************)
(* One invocation of "acloud create" for a cuttlefish device, up to the    *)
(* point where the creator has its image artifacts: create_args.VerifyArgs,*)
(* create.PreRunCheck, avd_spec.AVDSpec(args) and, for a local image on a  *)
(* local instance, LocalImageLocalInstance.GetImageArtifactsPath.          *)
(* Python's None is the string "None"; a key a dict does not hold reads    *)
(* "absent".                                                               *)
(***************************************************************************)
\* The command line: no --local-image at all, --local-image without a value,
\* or --local-image with a value (which may be the empty string).
LocalImageArgv == {"<absent>", "<no value>", "", "/good/out", "/missing/out"}
\* add_argument("--local-image", type=str, nargs="?", default=""): "" when
\* the flag is not given, None for the flag without a value, else the value.
ParseLocalImage(argv) ==
    IF argv = "<absent>" THEN ""
    ELSE IF argv = "<no value>" THEN "None"
    ELSE argv
\* --branch, --build-target, --build-id: None by default, or the given text.
BranchArgs == {"None", "", "aosp-master"}
BuildTargetArgs == {"None", "", "cf_x86_auto-userdebug"}
BuildIdArgs == {"None", "", "5046769"}
\* --hw-property, by what the checks make of it: not given, well formed,
\* not of the form a:b, a key outside HW_PROPERTIES, a value no pattern takes.
HwPropertyKinds == {"", "valid", "malformed", "unknown_key", "bad_value"}
ProductOutEnv == {"unset", "/good/out", "/missing/out"}

\* "not value" of Python for None and for the empty string.
Falsy(value) == value \in {"None", ""}
\* os.path.exists(path)
PathExists(path) == path = "/good/out"

NoRemoteImage ==
    [dict |-> FALSE, build_branch |-> "absent", build_target |-> "absent",
     build_id |-> "absent"]

\* _GetBranchFromRepo: _DEFAULT_BRANCH_PREFIX + the manifest branch.
GetBranchFromRepo == "git_master"
\* _GetBuildTarget: "aosp_" only for a branch that starts with aosp.
GetBuildTarget(branch) ==
    IF branch = "aosp-master" THEN "aosp_cf_x86_phone-userdebug"
                              ELSE "cf_x86_phone-userdebug"
\* build_client.GetLKGB(build_target, build_branch)
GetLKGB(build_target, build_branch) ==
    IF build_branch = "aosp-master" THEN "5046770" ELSE "5046771"

InitAvd ==
    /\ argv_local_image \in LocalImageArgv
    /\ args \in [local_image : {ParseLocalImage(argv_local_image)},
                 local_instance : BOOLEAN,
                 branch : BranchArgs, build_target : BuildTargetArgs,
                 build_id : BuildIdArgs, hw_property : HwPropertyKinds]
    /\ env_product_out \in ProductOutEnv
    /\ avd_pc = "verify_args"
    /\ avd_error = ""
    /\ gcp_checked = FALSE
    /\ avd_instance_type = "None"
    /\ avd_image_source = "None"
    /\ local_image_dir = "None"
    /\ remote_image = NoRemoteImage
    /\ inferred = {}
    /\ lkgb_calls = 0
    /\ artifacts_path = "None"

avdInput == <<argv_local_image, args, env_product_out>>

avdResult == <<avd_instance_type, avd_image_source, local_image_dir,
               remote_image, inferred, lkgb_calls, artifacts_path>>

\* An exception leaves main: nothing catches it.
AvdRaise(error) ==
    /\ avd_pc' = "raised"
    /\ avd_error' = error

\* create_args.VerifyArgs, called by main before the config is read.
VerifyArgs ==
    /\ avd_pc = "verify_args"
    /\ IF ~Falsy(args.local_image) /\ ~PathExists(args.local_image)
       THEN AvdRaise("CheckPathError")
       ELSE IF args.hw_property = "malformed"
       THEN AvdRaise("MalformedDictStringError")
       ELSE IF args.hw_property = "unknown_key"
       THEN AvdRaise("InvalidHWPropertyError")
       ELSE /\ avd_pc' = "pre_run_check"
            /\ UNCHANGED avd_error
    /\ UNCHANGED <<avdInput, gcp_checked, avdResult>>
    /\ UNCHANGED otherThanAvd

\* create.PreRunCheck: the GCP setup is looked at only for a remote instance
\* or a remote image; when a setup is missing, the user runs it or declines.
AvdPreRunCheck(declined) ==
    /\ avd_pc = "pre_run_check"
    /\ gcp_checked' = (~args.local_instance \/ args.local_image = "")
    /\ IF declined
       THEN avd_pc' = "exited"
       ELSE avd_pc' = "misc_args"
    /\ UNCHANGED <<avdInput, avd_error, avdResult>>
    /\ UNCHANGED otherThanAvd

\* AVDSpec.__init__ up to _ProcessMiscArgs.
ProcessMiscArgs ==
    /\ avd_pc = "misc_args"
    /\ avd_instance_type' = IF args.local_instance THEN "local" ELSE "remote"
    /\ avd_pc' = "image_args"
    /\ UNCHANGED <<avdInput, avd_error, gcp_checked,
                   avd_image_source, local_image_dir, remote_image,
                   inferred, lkgb_calls, artifacts_path>>
    /\ UNCHANGED otherThanAvd

\* if args.local_image == "": the image comes from a remote build.
SourceIsRemote_WhenFalsy(a) == Falsy(a.local_image)

SourceIsRemote(a) == a.local_image = ""

\* _ProcessLocalImageArgs: the given path, else $ANDROID_PRODUCT_OUT.
LocalImageDir_NoInference(a, env) == a.local_image

LocalImageDir(a, env) ==
    IF ~Falsy(a.local_image) THEN a.local_image ELSE env

\* "if not self._remote_image[...]": the field is inferred.
InfersBranch(a) == Falsy(a.branch)

InfersBuildTarget_Always(a) == TRUE

InfersBuildTarget(a) == Falsy(a.build_target)

InfersBuildId_Always(a) == TRUE

InfersBuildId(a) == Falsy(a.build_id)

\* _ProcessRemoteBuildArgs: what it leaves in _remote_image, which fields
\* it inferred, how often it called GetLKGB, and the exception if one ended
\* it.
ProcessRemoteBuildArgs(a, repo_ok, lkgb_ok) ==
    LET first == [dict |-> TRUE, build_branch |-> a.branch,
                  build_target |-> "absent", build_id |-> "absent"]
        branch == IF InfersBranch(a) THEN GetBranchFromRepo ELSE a.branch
        target == IF InfersBuildTarget(a) THEN GetBuildTarget(branch)
                                          ELSE a.build_target
        filled == [dict |-> TRUE, build_branch |-> branch,
                   build_target |-> target, build_id |-> a.build_id]
        steps == (IF InfersBranch(a) THEN {"build_branch"} ELSE {}) \cup
                 (IF InfersBuildTarget(a) THEN {"build_target"} ELSE {})
    IN  IF InfersBranch(a) /\ ~repo_ok
        THEN [image |-> first, inferred |-> {"build_branch"}, lkgb |-> 0,
              error |-> "GetBranchFromRepoInfoError"]
        ELSE IF ~InfersBuildId(a)
        THEN [image |-> filled, inferred |-> steps, lkgb |-> 0, error |-> ""]
        ELSE IF lkgb_ok
        THEN [image |-> [filled EXCEPT !.build_id = GetLKGB(target, branch)],
              inferred |-> steps \cup {"build_id"}, lkgb |-> 1, error |-> ""]
        ELSE [image |-> filled, inferred |-> steps \cup {"build_id"},
              lkgb |-> 1, error |-> "GetLKGBError"]

\* _ProcessImageArgs with the method it calls.
ProcessImageArgs(repo_ok, lkgb_ok) ==
    /\ avd_pc = "image_args"
    /\ IF SourceIsRemote(args)
       THEN LET r == ProcessRemoteBuildArgs(args, repo_ok, lkgb_ok)
            IN  /\ avd_image_source' = "remote_image"
                /\ remote_image' = r.image
                /\ inferred' = r.inferred
                /\ lkgb_calls' = lkgb_calls + r.lkgb
                /\ IF r.error = ""
                   THEN avd_pc' = "hw_args" /\ UNCHANGED avd_error
                   ELSE AvdRaise(r.error)
                /\ UNCHANGED local_image_dir
       ELSE /\ avd_image_source' = "local_image"
            /\ IF Falsy(args.local_image) /\ env_product_out = "unset"
               THEN /\ AvdRaise("GetAndroidBuildEnvVarError")
                    /\ UNCHANGED local_image_dir
               ELSE /\ local_image_dir' = LocalImageDir(args, env_product_out)
                    /\ avd_pc' = "hw_args"
                    /\ UNCHANGED avd_error
            /\ UNCHANGED <<remote_image, inferred, lkgb_calls>>
    /\ UNCHANGED <<avdInput, gcp_checked, avd_instance_type,
                   artifacts_path>>
    /\ UNCHANGED otherThanAvd

\* _ProcessHWPropertyArgs, by the kind of --hw-property: the construction
\* ends with it.
ProcessHWPropertyArgs ==
    /\ avd_pc = "hw_args"
    /\ IF args.hw_property = "bad_value"
       THEN AvdRaise("InvalidHWPropertyError")
       ELSE /\ avd_pc' = "constructed"
            /\ UNCHANGED avd_error
    /\ UNCHANGED <<avdInput, gcp_checked, avdResult>>
    /\ UNCHANGED otherThanAvd

\* LocalImageLocalInstance.GetImageArtifactsPath: avd_spec.local_image_dir
\* is handed on as it is, together with the host binaries if they are found.
GetImageArtifactsPath(found_host_bins) ==
    /\ avd_pc = "constructed"
    /\ avd_instance_type = "local"
    /\ avd_image_source = "local_image"
    /\ IF found_host_bins
       THEN /\ artifacts_path' = local_image_dir
            /\ avd_pc' = "launching"
            /\ UNCHANGED avd_error
       ELSE /\ AvdRaise("GetCvdLocalHostPackageError")
            /\ UNCHANGED artifacts_path
    /\ UNCHANGED <<avdInput, gcp_checked, avd_instance_type,
                   avd_image_source, local_image_dir, remote_image,
                   inferred, lkgb_calls>>
    /\ UNCHANGED otherThanAvd

NextAvd ==
    \/ VerifyArgs
    \/ \E declined \in BOOLEAN : AvdPreRunCheck(declined)
    \/ ProcessMiscArgs
    \/ \E repo_ok, lkgb_ok \in BOOLEAN : ProcessImageArgs(repo_ok, lkgb_ok)
    \/ ProcessHWPropertyArgs
    \/ \E found_host_bins \in BOOLEAN : GetImageArtifactsPath(found_host_bins)

----------------------------------------------------------------------------
(***************************************************************************)
(* utils.CreateSshKeyPairIfNotExist(private_key_path, public_key_path),    *)
(* invoked again and again on the same two paths. A key file holds the id  *)
(* of the key pair it belongs to; key 0 is a file that holds no usable key.*)
(***************************************************************************)
MaxKeyCalls == 4
NoFile == [exists |-> FALSE, key |-> 0]
KeyFile(key) == [exists |-> TRUE, key |-> key]

InitSshKey ==
    /\ same_pub_path \in BOOLEAN
    /\ key_folder \in BOOLEAN
    /\ private_file \in IF key_folder THEN {0, 1} ELSE {0}
    /\ public_file \in IF same_pub_path /\ ~ key_folder
                       THEN {NoFile} ELSE {NoFile, KeyFile(0), KeyFile(1)}
    /\ default_pub_file \in IF same_pub_path \/ ~ key_folder
                            THEN {NoFile} ELSE {NoFile, KeyFile(0)}
    /\ next_key = 2
    /\ ssh_calls = 0
    /\ ssh_before = [private |-> 0, public |-> NoFile]
    /\ ssh_generated = [keygen |-> 0, pubgen |-> 0]
    /\ ssh_result = "none"

\* if public_key_exist and private_key_exist: return
BothHalvesExist(private_key_exist, public_key_exist) ==
    public_key_exist /\ private_key_exist

\* if private_key_exist: the public key is written from the private key
\* (ssh-keygen -y), else a new pair is generated.
DerivesPublicKey_Never(private_key_exist) == FALSE

DerivesPublicKey(private_key_exist) == private_key_exist

\* One invocation. tool_ok: ssh-keygen ends with status 0.
CreateSshKeyPairIfNotExist(tool_ok) ==
    /\ ssh_calls < MaxKeyCalls
    /\ ssh_calls' = ssh_calls + 1
    /\ ssh_before' = [private |-> private_file, public |-> public_file]
    /\ UNCHANGED same_pub_path
    /\ LET private_key_exist == private_file # 0
           public_key_exist == public_file.exists
       IN  IF BothHalvesExist(private_key_exist, public_key_exist)
           THEN /\ ssh_generated' = [keygen |-> 0, pubgen |-> 0]
                /\ ssh_result' = "returned"
                /\ UNCHANGED <<key_folder, private_file, public_file,
                               default_pub_file, next_key>>
           ELSE IF DerivesPublicKey(private_key_exist)
           THEN \* open(public_key_path, 'w') comes before check_output
                /\ key_folder' = TRUE
                /\ ssh_generated' = [keygen |-> 0, pubgen |-> 1]
                /\ UNCHANGED <<private_file, next_key>>
                /\ IF ~ tool_ok
                   THEN /\ public_file' = KeyFile(0)
                        /\ ssh_result' = "DriverError"
                        /\ UNCHANGED default_pub_file
                   ELSE IF same_pub_path
                   THEN /\ public_file' = KeyFile(private_file)
                        /\ ssh_result' = "returned"
                        /\ UNCHANGED default_pub_file
                   ELSE IF default_pub_file.exists
                   THEN \* os.rename(default_pub_key_path, public_key_path)
                        /\ public_file' = default_pub_file
                        /\ default_pub_file' = NoFile
                        /\ ssh_result' = "returned"
                   ELSE /\ public_file' = KeyFile(private_file)
                        /\ ssh_result' = "DriverError"
                        /\ UNCHANGED default_pub_file
           ELSE /\ key_folder' = TRUE
                /\ ssh_generated' = [keygen |-> 1, pubgen |-> 0]
                /\ IF ~ tool_ok
                   THEN /\ ssh_result' = "DriverError"
                        /\ UNCHANGED <<private_file, public_file,
                                       default_pub_file, next_key>>
                   ELSE \* ssh-keygen writes private_key_path and
                        \* private_key_path + ".pub"; the latter is renamed
                        \* to public_key_path when that is another path.
                        /\ private_file' = next_key
                        /\ public_file' = KeyFile(next_key)
                        /\ next_key' = next_key + 1
                        /\ ssh_result' = "returned"
                        /\ default_pub_file' = NoFile
    /\ UNCHANGED otherThanSshKey

NextSshKey ==
    \E tool_ok \in BOOLEAN : CreateSshKeyPairIfNotExist(tool_ok)

----------------------------------------------------------------------------
(***************************************************************************)
(* The hardware properties of a specification. A property string is the    *)
(* sequence of its comma separated items; an item is [n, key, value] where *)
(* n is the number of parts its split at ':' has (1: no ':', 2: key:value, *)
(* 3: one ':' too many). A value is a token [kind, n, m]: the decimal      *)
(* integer n ("int"), "-n" ("neg"), "<n>g" ("gb"), "<n>x<m>" ("res"), a    *)
(* word that is none of these ("word"), or the empty string ("empty").     *)
(* A dict is a function on the set of its keys.                            *)
(***************************************************************************)
MaxHwItems == 2

IntTok(n) == [kind |-> "int", n |-> n, m |-> 0]
NegTok(n) == [kind |-> "neg", n |-> n, m |-> 0]
GbTok(n) == [kind |-> "gb", n |-> n, m |-> 0]
ResTok(x, y) == [kind |-> "res", n |-> x, m |-> y]
Word == [kind |-> "word", n |-> 0, m |-> 0]
Empty == [kind |-> "empty", n |-> 0, m |-> 0]
Item(key, value) == [n |-> 2, key |-> key, value |-> value]

\* constants.HW_PROPERTIES
HW_PROPERTIES == {"cpu", "resolution", "dpi", "memory", "disk"}
\* The keys of a parsed profile.
ProfileKeys == {"cpu", "x_res", "y_res", "dpi", "memory", "disk"}

HwKeys == HW_PROPERTIES \cup {"foo", ""}
HwValues == {IntTok(0), IntTok(3), NegTok(1), GbTok(2), ResTok(1280, 800), Word, Empty}
HwItems ==
    {Item(k, v) : k \in HwKeys, v \in HwValues}
    \cup {[n |-> 1, key |-> k, value |-> Empty] : k \in HwKeys}
    \cup {[n |-> 3, key |-> "cpu", value |-> IntTok(3)]}
\* The strings --hw-property can carry; the string of one empty item is the
\* empty string, which is the sequence without items.
HwPropertyStrings ==
    UNION {[1..len -> HwItems] : len \in 0..MaxHwItems}
        \ {<<[n |-> 1, key |-> "", value |-> Empty]>>}
\* The default string of the config: all five properties.
DefaultHwProperty ==
    <<Item("cpu", IntTok(2)), Item("resolution", ResTok(720, 1280)),
      Item("dpi", IntTok(320)), Item("memory", GbTok(4)), Item("disk", GbTok(4))>>
\* The strings a config can carry: the default one, and one whose memory and
\* disk differ.
ConfigHwProperties ==
    {DefaultHwProperty,
     <<Item("cpu", IntTok(4)), Item("resolution", ResTok(1080, 1920)),
       Item("dpi", IntTok(240)), Item("memory", GbTok(2)), Item("disk", GbTok(8))>>}

EmptyDict == << >>
Put(dict, key, value) ==
    [k \in DOMAIN dict \cup {key} |-> IF k = key THEN value ELSE dict[k]]

\* dict.update(other)
Update_Replace(dict, other) == other

Update_KeepExisting(dict, other) ==
    [k \in DOMAIN dict \cup DOMAIN other |->
        IF k \in DOMAIN dict THEN dict[k] ELSE other[k]]

Update(dict, other) ==
    [k \in DOMAIN dict \cup DOMAIN other |->
        IF k \in DOMAIN other THEN other[k] ELSE dict[k]]

\* create_common.ParseHWPropertyArgs, from the item at position i on: the
\* dict of the items, or the exception of the first item that is not
\* key:value.
RECURSIVE ParseItems(_, _, _)
ParseItems(items, i, dict) ==
    IF i > Len(items) THEN [error |-> "", dict |-> dict]
    ELSE LET item == items[i]
         IN  IF item.n = 1
             THEN [error |-> "MalformedDictStringError", dict |-> EmptyDict]
             ELSE IF item.n > 2
             THEN [error |-> "ValueError", dict |-> EmptyDict]
             ELSE IF item.value = Empty \/ item.key = ""
             THEN [error |-> "MalformedDictStringError", dict |-> EmptyDict]
             ELSE ParseItems(items, i + 1, Put(dict, item.key, item.value))

ParseHWPropertyArgs_Unchecked(dict_str) == [error |-> "", dict |-> EmptyDict]

ParseHWPropertyArgs(dict_str) == ParseItems(dict_str, 1, EmptyDict)

\* pattern.match(value) for _RE_RES (^\d+x\d+$), _RE_GBSIZE (^\d+g$, any
\* case) and _RE_INT (^\d+$).
Matches(pattern, value) ==
    value.kind = (IF pattern = "_RE_RES" THEN "res"
                  ELSE IF pattern = "_RE_GBSIZE" THEN "gb"
                  ELSE "int")

\* The loop body of _ParseHWPropertyStr for one key of hw_dict: does its
\* value pass, and what does it add to the profile.
ValuePasses(key, value) ==
    IF key = "resolution" THEN Matches("_RE_RES", value)
    ELSE IF key \in {"memory", "disk"} THEN Matches("_RE_GBSIZE", value)
    ELSE IF key \in {"cpu", "dpi"} THEN Matches("_RE_INT", value)
    ELSE TRUE

ProfileValue_Raw(hw_dict, key) ==
    IF key = "x_res" THEN hw_dict["resolution"].n
    ELSE IF key = "y_res" THEN hw_dict["resolution"].m
    ELSE hw_dict[key].n

ProfileValue(hw_dict, key) ==
    IF key = "x_res" THEN hw_dict["resolution"].n
    ELSE IF key = "y_res" THEN hw_dict["resolution"].m
    ELSE IF key \in {"memory", "disk"} THEN hw_dict[key].n * 1024
    ELSE hw_dict[key].n

\* The key of hw_dict a key of the profile comes from.
AliasOf(key) == IF key \in {"x_res", "y_res"} THEN "resolution" ELSE key

\* AVDSpec._ParseHWPropertyStr
ParseHWPropertyStr(hw_property_str) ==
    LET parsed == ParseHWPropertyArgs(hw_property_str)
        hw_dict == parsed.dict
    IN  IF parsed.error # "" THEN parsed
        ELSE IF \E key \in DOMAIN hw_dict : ~ ValuePasses(key, hw_dict[key])
        THEN [error |-> "InvalidHWPropertyError", dict |-> EmptyDict]
        ELSE [error |-> "",
              dict |-> [key \in {k \in ProfileKeys : AliasOf(k) \in DOMAIN hw_dict}
                            |-> ProfileValue(hw_dict, key)]]

InitHw ==
    /\ cfg_hw_property \in ConfigHwProperties
    /\ arg_hw_property \in HwPropertyStrings
    /\ hw_property = [none |-> TRUE, dict |-> EmptyDict]
    /\ hw_pc = "verify"
    /\ hw_error = ""

HwRaise(error) ==
    /\ hw_pc' = "raised"
    /\ hw_error' = error

\* create_args.VerifyArgs: the string must parse and hold only keys of
\* HW_PROPERTIES.
VerifyHwArgs ==
    /\ hw_pc = "verify"
    /\ LET parsed == ParseHWPropertyArgs(arg_hw_property)
       IN  IF parsed.error # "" THEN HwRaise(parsed.error)
           ELSE IF \E key \in DOMAIN parsed.dict : key \notin HW_PROPERTIES
           THEN HwRaise("InvalidHWPropertyError")
           ELSE hw_pc' = "defaults" /\ UNCHANGED hw_error
    /\ UNCHANGED <<cfg_hw_property, arg_hw_property, hw_property>>
    /\ UNCHANGED otherThanHw

\* _ProcessHWPropertyArgs, first half: the profile of the config's string.
ParseDefaults ==
    /\ hw_pc = "defaults"
    /\ LET parsed == ParseHWPropertyStr(cfg_hw_property)
       IN  IF parsed.error # ""
           THEN /\ hw_property' = [none |-> FALSE, dict |-> EmptyDict]
                /\ HwRaise(parsed.error)
           ELSE /\ hw_property' = [none |-> FALSE, dict |-> parsed.dict]
                /\ hw_pc' = "overrides"
                /\ UNCHANGED hw_error
    /\ UNCHANGED <<cfg_hw_property, arg_hw_property>>
    /\ UNCHANGED otherThanHw

\* _ProcessHWPropertyArgs, second half: "if args.hw_property:" the profile
\* of the given string is laid over the defaults.
ApplyOverrides ==
    /\ hw_pc = "overrides"
    /\ IF arg_hw_property = << >>
       THEN /\ hw_pc' = "done"
            /\ UNCHANGED <<hw_property, hw_error>>
       ELSE LET parsed == ParseHWPropertyStr(arg_hw_property)
            IN  IF parsed.error # ""
                THEN /\ HwRaise(parsed.error)
                     /\ UNCHANGED hw_property
                ELSE /\ hw_property' =
                            [hw_property EXCEPT !.dict = Update(@, parsed.dict)]
                     /\ hw_pc' = "done"
                     /\ UNCHANGED hw_error
    /\ UNCHANGED <<cfg_hw_property, arg_hw_property>>
    /\ UNCHANGED otherThanHw

NextHw ==
    \/ VerifyHwArgs
    \/ ParseDefaults
    \/ ApplyOverrides

----------------------------------------------------------------------------
(***************************************************************************)
(* LocalImageRemoteInstance._CreateAVD for num devices: the artifacts are  *)
(* verified once, DevicePool.CreateDevices runs the factory's              *)
(* CreateInstance for one device after the other, DevicePool.WaitForBoot   *)
(* then waits for each device of the pool. The provisioning states are the *)
(* names the steps of CreateInstance's docstring go by: a device is in the *)
(* state of the last step that ended without an exception for it.          *)
(***************************************************************************)
MaxProvNum == 3
ProvDevices == 1..MaxProvNum

\* The body of CreateInstance, in statement order.
CreateInstanceSteps_UploadFirst ==
    <<"_CreateGceInstance", "_UploadArtifacts", "_SetAVDenv", "_LaunchCvd">>

CreateInstanceSteps ==
    <<"_CreateGceInstance", "_SetAVDenv", "_UploadArtifacts", "_LaunchCvd">>

\* What a step has achieved when it returns.
StateAfter(step) ==
    CASE step = "VerifyArtifactsExist" -> "IMAGE_READY"
      [] step = "_CreateGceInstance" -> "INSTANCE_CREATED"
      [] step = "_SetAVDenv" -> "ENV_CONFIGURED"
      [] step = "_UploadArtifacts" -> "ARTIFACTS_UPLOADED"
      [] step = "_LaunchCvd" -> "BOOTING"

\* The shell commands a step runs through _ShellCmdWithRetry: _SetAVDenv one,
\* _UploadArtifacts the image (zip or tar of the directory) and then the
\* host package; the other steps none.
ShellCmds(step, zip) ==
    CASE step = "_SetAVDenv" -> <<"usermod">>
      [] step = "_UploadArtifacts" ->
            <<IF zip THEN "install_zip" ELSE "tar_lzop", "host_package">>
      [] OTHER -> << >>

\* utils.TimeExecute around _SetAVDenv, _UploadArtifacts and WaitForBoot: the
\* outcome of the wrapped function is the outcome of the call.
TimeExecute(outcome) == outcome

StepOutcomes == {"ok", "driver_error", "CalledProcessError"}

InitProv ==
    /\ prov_num \in ProvDevices
    /\ local_image_zip \in BOOLEAN
    /\ prov_pc = "verify"
    /\ prov_dev = 1
    /\ prov_step = 1
    /\ prov_cmd = 0
    /\ prov_state = [d \in ProvDevices |-> "PENDING"]
    /\ prov_trace = [d \in ProvDevices |-> <<"PENDING">>]
    /\ prov_started = [d \in ProvDevices |-> {}]
    /\ prov_error = ""

provInput == <<prov_num, local_image_zip>>

\* The device enters a state.
Enter(d, state) ==
    /\ prov_state' = [prov_state EXCEPT ![d] = state]
    /\ prov_trace' = [prov_trace EXCEPT ![d] = Append(@, state)]

\* An exception leaves CreateInstance; where it goes from there is
\* CreateDevices' business.
ProvRaise(error) ==
    /\ prov_pc' = "raised"
    /\ prov_error' = error

\* self.VerifyArtifactsExist(avd_spec.local_image_dir): one image for all
\* devices of the invocation.
VerifyArtifactsExist(found) ==
    /\ prov_pc = "verify"
    /\ prov_started' = [d \in ProvDevices |->
                           IF d <= prov_num
                           THEN {<<"VerifyArtifactsExist", prov_state[d]>>}
                           ELSE {}]
    /\ IF found
       THEN /\ prov_state' = [d \in ProvDevices |->
                                 IF d <= prov_num
                                 THEN StateAfter("VerifyArtifactsExist")
                                 ELSE prov_state[d]]
            /\ prov_trace' = [d \in ProvDevices |->
                                 IF d <= prov_num
                                 THEN Append(prov_trace[d],
                                             StateAfter("VerifyArtifactsExist"))
                                 ELSE prov_trace[d]]
            /\ prov_pc' = "create"
            /\ UNCHANGED prov_error
       ELSE /\ ProvRaise("GetLocalImageError")
            /\ UNCHANGED <<prov_state, prov_trace>>
    /\ UNCHANGED <<provInput, prov_dev, prov_step, prov_cmd>>
    /\ UNCHANGED otherThanProv

\* The step has returned: the next statement of CreateInstance, the next
\* round of the loop of CreateDevices, or WaitForBoot.
StepReturns ==
    /\ Enter(prov_dev, StateAfter(CreateInstanceSteps[prov_step]))
    /\ prov_cmd' = 0
    /\ UNCHANGED prov_error
    /\ IF prov_step < Len(CreateInstanceSteps)
       THEN /\ prov_step' = prov_step + 1
            /\ UNCHANGED <<prov_dev, prov_pc>>
       ELSE IF prov_dev < prov_num
       THEN /\ prov_step' = 1
            /\ prov_dev' = prov_dev + 1
            /\ UNCHANGED prov_pc
       ELSE /\ prov_step' = 1
            /\ prov_dev' = 1
            /\ prov_pc' = "wait"

\* One statement of CreateInstance for the device at hand: a step without
\* shell commands as a whole, another step one shell command at a time.
\* outcome is how the statement (after the retries of _ShellCmdWithRetry)
\* ends.
RunStep(outcome) ==
    /\ prov_pc = "create"
    /\ LET step == CreateInstanceSteps[prov_step]
           cmds == ShellCmds(step, local_image_zip)
       IN  /\ prov_started' =
                  [prov_started EXCEPT ![prov_dev] =
                       @ \cup {<<step, prov_state[prov_dev]>>}]
           /\ IF TimeExecute(outcome) # "ok"
              THEN /\ ProvRaise(outcome)
                   /\ UNCHANGED <<prov_dev, prov_step, prov_cmd, prov_state,
                                  prov_trace>>
              ELSE IF prov_cmd + 1 < Len(cmds)
              THEN /\ prov_cmd' = prov_cmd + 1
                   /\ UNCHANGED <<prov_dev, prov_step, prov_pc, prov_state,
                                  prov_trace, prov_error>>
              ELSE StepReturns
    /\ UNCHANGED provInput
    /\ UNCHANGED otherThanProv

\* DevicePool.WaitForBoot, one round of its loop: compute_client.WaitForBoot
\* for the device; a DeviceBootError is kept as the device's failure, any
\* other exception leaves the loop.
ProvWaitForBoot(outcome) ==
    /\ prov_pc = "wait"
    /\ prov_started' = [prov_started EXCEPT ![prov_dev] =
                            @ \cup {<<"WaitForBoot", prov_state[prov_dev]>>}]
    /\ IF outcome \in {"ok", "boot_error"}
       THEN /\ Enter(prov_dev, IF outcome = "ok" THEN "BOOTED"
                                                 ELSE "BOOT_FAILED")
            /\ IF prov_dev < prov_num
               THEN prov_dev' = prov_dev + 1 /\ UNCHANGED prov_pc
               ELSE prov_pc' = "done" /\ UNCHANGED prov_dev
            /\ UNCHANGED prov_error
       ELSE /\ ProvRaise(outcome)
            /\ UNCHANGED <<prov_dev, prov_state, prov_trace>>
    /\ UNCHANGED <<provInput, prov_step, prov_cmd>>
    /\ UNCHANGED otherThanProv

NextProv ==
    \/ \E found \in BOOLEAN : VerifyArtifactsExist(found)
    \/ \E outcome \in StepOutcomes : RunStep(outcome)
    \/ \E outcome \in WaitOutcomes : ProvWaitForBoot(outcome)

----------------------------------------------------------------------------
(***************************************************************************)
(* The wait for a local goldfish emulator: utils.PollAndWait polls         *)
(* "proc.poll() is None and self._IsEmulatorRunning(adb)" every 5 seconds  *)
(* for up to _EMULATOR_TIMEOUT_SECS, then proc.poll() is looked at once    *)
(* more. The emulator process comes up or exits by itself meanwhile.       *)
(***************************************************************************)
EMULATOR_TIMEOUT_SECS == 150
EMULATOR_SLEEP_INTERVAL_SECS == 5
MaxEmuClock == EMULATOR_TIMEOUT_SECS + 2 * EMULATOR_SLEEP_INTERVAL_SECS

InitEmu ==
    /\ emu_proc \in {"running", "exited"}
    /\ emu_available = FALSE
    /\ emu_start = 0
    /\ emu_clock = 0
    /\ emu_pc = "poll"
    /\ emu_result = "none"
    /\ emu_died_early = (emu_proc = "exited")

\* func of the PollAndWait call.
EmulatorIsUp(proc, available) == proc = "running" /\ available

\* One round of the loop of PollAndWait: func is called; the expected value
\* returns, else the timeout raises DeviceBootTimeoutError, else the loop
\* sleeps and goes round again.
EmuPoll ==
    /\ emu_pc = "poll"
    /\ IF EmulatorIsUp(emu_proc, emu_available) = TRUE
       THEN /\ emu_pc' = "after_poll"
            /\ UNCHANGED <<emu_result, emu_clock>>
       ELSE IF TimedOut(emu_clock, emu_start, EMULATOR_TIMEOUT_SECS)
       THEN /\ emu_result' = "DeviceBootTimeoutError"
            /\ emu_pc' = "done"
            /\ UNCHANGED emu_clock
       ELSE /\ emu_clock' = Min(emu_clock + EMULATOR_SLEEP_INTERVAL_SECS,
                                MaxEmuClock)
            /\ UNCHANGED <<emu_pc, emu_result>>
    /\ UNCHANGED <<emu_proc, emu_available, emu_start, emu_died_early>>
    /\ UNCHANGED otherThanEmu

\* if proc.poll() is not None: raise errors.EmulatorFail
EmuCheckProcess ==
    /\ emu_pc = "after_poll"
    /\ emu_result' = IF emu_proc # "running" THEN "EmulatorFail" ELSE "returned"
    /\ emu_pc' = "done"
    /\ UNCHANGED <<emu_proc, emu_available, emu_start, emu_clock,
                   emu_died_early>>
    /\ UNCHANGED otherThanEmu

\* The emulator answers on its console port from now on.
EmulatorComesUp ==
    /\ emu_pc # "done"
    /\ emu_proc = "running"
    /\ ~ emu_available
    /\ emu_available' = TRUE
    /\ UNCHANGED <<emu_proc, emu_start, emu_clock, emu_pc, emu_result,
                   emu_died_early>>
    /\ UNCHANGED otherThanEmu

\* The emulator process exits; nothing answers on the console port then.
EmulatorExits ==
    /\ emu_pc # "done"
    /\ emu_proc = "running"
    /\ emu_proc' = "exited"
    /\ emu_available' = FALSE
    /\ emu_died_early' = ~ emu_available
    /\ UNCHANGED <<emu_start, emu_clock, emu_pc, emu_result>>
    /\ UNCHANGED otherThanEmu

\* Time passes while func (an adb call) runs.
EmuTick ==
    /\ emu_pc = "poll"
    /\ emu_clock < MaxEmuClock
    /\ emu_clock' = emu_clock + 1
    /\ UNCHANGED <<emu_proc, emu_available, emu_start, emu_pc, emu_result,
                   emu_died_early>>
    /\ UNCHANGED otherThanEmu

NextEmu ==
    \/ EmuPoll
    \/ EmuCheckProcess
    \/ EmulatorComesUp
    \/ EmulatorExits
    \/ EmuTick

----------------------------------------------------------------------------
\* The specifications: one component runs, the other stays as constructed.
DriverIdle ==
    /\ num = 1
    /\ cfg = [pub |-> FALSE, priv |-> FALSE]
    /\ report_internal_ip = FALSE
    /\ pc = "start"
    /\ devices = <<>>
    /\ failures = <<>>
    /\ widx = 1
    /\ ridx = 1
    /\ reporter = NewReport
    /\ result = "none"
    /\ createLog = <<>>
    /\ waitLog = <<>>

LocalIdle ==
    /\ lpc = [p \in Procs |-> "start"]
    /\ spec_id = [p \in Procs |-> 0]
    /\ no_prompts = [p \in Procs |-> FALSE]
    /\ cand = [p \in Procs |-> 1]
    /\ ins_id = [p \in Procs |-> 0]
    /\ lreport = [p \in Procs |-> "none"]
    /\ pending = [p \in Procs |-> "none"]
    /\ lresult = [p \in Procs |-> "none"]
    /\ lockHolder = [i \in Ids |-> NoProc]
    /\ lockInUse = [i \in Ids |-> FALSE]
    /\ acquired = [p \in Procs |-> 0]
    /\ unlocks = [p \in Procs |-> 0]
    /\ marks = [p \in Procs |-> {}]
    /\ inUseAtStart = lockInUse
    /\ lerror = [p \in Procs |-> "none"]
    /\ launched = [p \in Procs |-> FALSE]

RetryIdle ==
    /\ caller = "Retry"
    /\ retry_types = {}
    /\ max_retries = 0
    /\ sleep_multiplier = 0
    /\ retry_backoff_factor = 1
    /\ attempt_count = 0
    /\ rpc = "loop"
    /\ rresult = [kind |-> "none", what |-> "none", call |-> 0]
    /\ callLog = <<>>
    /\ sleeps = <<>>

PollIdle ==
    /\ timeout_secs = 0
    /\ sleep_interval_secs = 0
    /\ expected_return = TRUE
    /\ start = 0
    /\ now = 0
    /\ ppc = "start"
    /\ return_value = FALSE
    /\ polls = 0
    /\ presult = "none"

MainIdle ==
    /\ which = "create"
    /\ avd_type = "cuttlefish"
    /\ report_file = FALSE
    /\ mpc = "main"
    /\ spec_outcome = "none"
    /\ instance_type = "none"
    /\ image_source = "none"
    /\ avd_creator = "none"
    /\ instantiated = FALSE
    /\ create_called = FALSE
    /\ run_report = NoReport
    /\ main_report = NoReport
    /\ dumped = FALSE
    /\ ended = "none"
    /\ main_return = -1
    /\ exit_code = -1

LaunchIdle ==
    /\ cvd_id = 1
    /\ cvd_timeout = 1
    /\ cvd_clock = 0
    /\ cvd_pc = "launch"
    /\ cvd_proc = "none"
    /\ cvd_returncode = 0
    /\ cvd_timer = "none"
    /\ cvd_killed = FALSE
    /\ cvd_report = NewReport
    /\ cvd_result = "none"

CacheIdle ==
    /\ cache_dirs = [b \in BuildIds |-> [exists |-> FALSE, done |-> {}]]
    /\ ic_count = 0
    /\ ic_pc = "idle"
    /\ ic_build = "b1"
    /\ ic_existed = FALSE
    /\ ic_steps = <<>>
    /\ ic_result = [kind |-> "none", path |-> <<>>]

AvdIdle ==
    /\ argv_local_image = "<absent>"
    /\ args = [local_image |-> "", local_instance |-> FALSE,
               branch |-> "None", build_target |-> "None",
               build_id |-> "None", hw_property |-> ""]
    /\ env_product_out = "unset"
    /\ avd_pc = "verify_args"
    /\ avd_error = ""
    /\ gcp_checked = FALSE
    /\ avd_instance_type = "None"
    /\ avd_image_source = "None"
    /\ local_image_dir = "None"
    /\ remote_image = NoRemoteImage
    /\ inferred = {}
    /\ lkgb_calls = 0
    /\ artifacts_path = "None"

SshKeyIdle ==
    /\ same_pub_path = TRUE
    /\ key_folder = FALSE
    /\ private_file = 0
    /\ public_file = NoFile
    /\ default_pub_file = NoFile
    /\ next_key = 2
    /\ ssh_calls = 0
    /\ ssh_before = [private |-> 0, public |-> NoFile]
    /\ ssh_generated = [keygen |-> 0, pubgen |-> 0]
    /\ ssh_result = "none"

HwIdle ==
    /\ cfg_hw_property = DefaultHwProperty
    /\ arg_hw_property = << >>
    /\ hw_property = [none |-> TRUE, dict |-> EmptyDict]
    /\ hw_pc = "verify"
    /\ hw_error = ""

ProvIdle ==
    /\ prov_num = 1
    /\ local_image_zip = FALSE
    /\ prov_pc = "verify"
    /\ prov_dev = 1
    /\ prov_step = 1
    /\ prov_cmd = 0
    /\ prov_state = [d \in ProvDevices |-> "PENDING"]
    /\ prov_trace = [d \in ProvDevices |-> <<"PENDING">>]
    /\ prov_started = [d \in ProvDevices |-> {}]
    /\ prov_error = ""

EmuIdle ==
    /\ emu_proc = "running"
    /\ emu_available = FALSE
    /\ emu_start = 0
    /\ emu_clock = 0
    /\ emu_pc = "poll"
    /\ emu_result = "none"
    /\ emu_died_early = FALSE

InitSpecDriver == InitDriver /\ LocalIdle /\ RetryIdle /\ PollIdle /\
    MainIdle /\ LaunchIdle /\ CacheIdle /\ AvdIdle /\ SshKeyIdle /\ HwIdle /\
    ProvIdle /\ EmuIdle

InitSpecLocal == InitLocal /\ DriverIdle /\ RetryIdle /\ PollIdle /\
    MainIdle /\ LaunchIdle /\ CacheIdle /\ AvdIdle /\ SshKeyIdle /\ HwIdle /\
    ProvIdle /\ EmuIdle

InitSpecRetry == InitRetry /\ DriverIdle /\ LocalIdle /\ PollIdle /\
    MainIdle /\ LaunchIdle /\ CacheIdle /\ AvdIdle /\ SshKeyIdle /\ HwIdle /\
    ProvIdle /\ EmuIdle

InitSpecPoll == InitPoll /\ DriverIdle /\ LocalIdle /\ RetryIdle /\
    MainIdle /\ LaunchIdle /\ CacheIdle /\ AvdIdle /\ SshKeyIdle /\ HwIdle /\
    ProvIdle /\ EmuIdle

InitSpecMain == InitMain /\ DriverIdle /\ LocalIdle /\ RetryIdle /\
    PollIdle /\ LaunchIdle /\ CacheIdle /\ AvdIdle /\ SshKeyIdle /\ HwIdle /\
    ProvIdle /\ EmuIdle

InitSpecLaunch == InitLaunch /\ DriverIdle /\ LocalIdle /\ RetryIdle /\
    PollIdle /\ MainIdle /\ CacheIdle /\ AvdIdle /\ SshKeyIdle /\ HwIdle /\
    ProvIdle /\ EmuIdle

InitSpecCache == InitCache /\ DriverIdle /\ LocalIdle /\ RetryIdle /\
    PollIdle /\ MainIdle /\ LaunchIdle /\ AvdIdle /\ SshKeyIdle /\ HwIdle /\
    ProvIdle /\ EmuIdle

InitSpecAvd == InitAvd /\ DriverIdle /\ LocalIdle /\ RetryIdle /\ PollIdle /\
    MainIdle /\ LaunchIdle /\ CacheIdle /\ SshKeyIdle /\ HwIdle /\
    ProvIdle /\ EmuIdle

InitSpecSshKey == InitSshKey /\ DriverIdle /\ LocalIdle /\ RetryIdle /\
    PollIdle /\ MainIdle /\ LaunchIdle /\ CacheIdle /\ AvdIdle /\ HwIdle /\
    ProvIdle /\ EmuIdle

InitSpecHw == InitHw /\ DriverIdle /\ LocalIdle /\ RetryIdle /\ PollIdle /\
    MainIdle /\ LaunchIdle /\ CacheIdle /\ AvdIdle /\ SshKeyIdle /\
    ProvIdle /\ EmuIdle

InitSpecProv == InitProv /\ DriverIdle /\ LocalIdle /\ RetryIdle /\
    PollIdle /\ MainIdle /\ LaunchIdle /\ CacheIdle /\ AvdIdle /\
    SshKeyIdle /\ HwIdle /\ EmuIdle

InitSpecEmu == InitEmu /\ DriverIdle /\ LocalIdle /\ RetryIdle /\ PollIdle /\
    MainIdle /\ LaunchIdle /\ CacheIdle /\ AvdIdle /\ SshKeyIdle /\ HwIdle /\
    ProvIdle

SpecDriver == InitSpecDriver /\ [][NextDriver]_vars

SpecLocal == InitSpecLocal /\ [][NextLocal]_vars

SpecRetry == InitSpecRetry /\ [][NextRetry]_vars

SpecPoll == InitSpecPoll /\ [][NextPoll]_vars

\* The loop of PollAndWait keeps running and the clock keeps advancing.
SpecPollFair ==
    /\ InitSpecPoll
    /\ [][NextPoll]_vars
    /\ WF_vars(PollStart)
    /\ WF_vars(\E value \in BOOLEAN : PollCall(value))
    /\ WF_vars(PollCheck)
    /\ WF_vars(Tick)

SpecMain == InitSpecMain /\ [][NextMain]_vars

SpecEmu == InitSpecEmu /\ [][NextEmu]_vars

SpecProv == InitSpecProv /\ [][NextProv]_vars

SpecHw == InitSpecHw /\ [][NextHw]_vars

SpecSshKey == InitSpecSshKey /\ [][NextSshKey]_vars

SpecAvd == InitSpecAvd /\ [][NextAvd]_vars

SpecCache == InitSpecCache /\ [][NextCache]_vars

SpecLaunch == InitSpecLaunch /\ [][NextLaunch]_vars

----------------------------------------------------------------------------
(***************************************************************************)
(* Properties of the CreateDevices driver, checked under SpecDriver.       *)
(***************************************************************************)
Names(seq) == [i \in 1..Len(seq) |-> seq[i].instance_name]
Raised(outcome) == outcome \notin {"ok", "pending"}
\* The position of the CreateInstance call that produced an instance.
CallIndex(instance) ==
    CHOOSE k \in 1..Len(createLog) : createLog[k].name = instance
\* The boot-wait of that instance raised an exception.
BootWaitFailed(instance) ==
    \E j \in 1..Len(waitLog) :
        waitLog[j].name = instance /\ Raised(waitLog[j].outcome)
Occurrences(seq, x) == Cardinality({i \in 1..Len(seq) : seq[i] = x})

\* C1: once CreateDevices has started creating devices, CreateInstance is
\* invoked once for each of the num devices, also when an earlier invocation
\* raised.
C1_EveryDeviceAttempted ==
    (pc = "done" /\ Len(createLog) >= 1) => Len(createLog) = num

C3_EveryCreatedDeviceReported ==
    (pc = "done" /\ result = "report") =>
        \A k \in 1..Len(createLog) :
            createLog[k].outcome = "ok" =>
                createLog[k].name \in
                    Range(Names(reporter.devices)) \cup
                    Range(Names(reporter.devices_failing_boot))

C6_ReportPartitionsPool ==
    (pc = "done" /\ result = "report") =>
        \A i \in 1..Len(devices) :
            LET instance == devices[i].instance_name
                booted == Names(reporter.devices)
                failing == Names(reporter.devices_failing_boot)
            IN /\ Occurrences(booted, instance) + Occurrences(failing, instance) = 1
               /\ (instance \in Range(booted)) <=> ~BootWaitFailed(instance)
               /\ BootWaitFailed(instance) =>
                      \E kind \in WaitOutcomes :
                          ErrorText(kind, instance) \in Range(reporter.errors)

\* C7: inside each device sequence of the Report, the devices are in the
\* order in which CreateInstance was invoked for them.
C7_ReportOrderIsCreationOrder ==
    \A seq \in {Names(reporter.devices), Names(reporter.devices_failing_boot)} :
        /\ \A a \in 1..Len(seq) :
               \E k \in 1..Len(createLog) : createLog[k].name = seq[a]
        /\ \A a, b \in 1..Len(seq) :
               a < b => CallIndex(seq[a]) < CallIndex(seq[b])

C7_Witness ==
    /\ pc = "done"
    /\ Len(reporter.devices) = 2
    /\ Len(reporter.devices_failing_boot) = 1
    /\ waitLog[2].outcome = "boot_error"

\* C8: creation is sequential: when the CreateInstance call of a device has
\* begun, the CreateInstance call of every earlier device has returned or
\* raised.
C8_CreationIsSequential ==
    \A k \in 1..Len(createLog) :
        k < Len(createLog) => createLog[k].outcome # "pending"

C8_Witness ==
    /\ Len(createLog) >= 2
    /\ Last(createLog).outcome = "pending"

----------------------------------------------------------------------------
(***************************************************************************)
(* Properties of the local instance lock, checked under SpecLocal.         *)
(***************************************************************************)
\* C9: a process that has acquired the lock of an instance id in _CreateAVD
\* holds it until _CreateAVD ends and has released it exactly once when
\* _CreateAVD has returned, raised or exited, on every path.
C9_LockReleasedExactlyOnce ==
    \A p \in Procs :
        /\ acquired[p] <= 1
        /\ (acquired[p] = 1 /\ lpc[p] # "done") =>
               unlocks[p] = 0 /\ lockHolder[ins_id[p]] = p
        /\ lpc[p] = "done" =>
               /\ unlocks[p] = acquired[p]
               /\ \A i \in Ids : lockHolder[i] # p

C9_Witness ==
    \E p, q \in Procs :
        /\ lpc[p] = "done" /\ lresult[p] = "raised"
        /\ acquired[p] = 1 /\ unlocks[p] = 1
        /\ lpc[q] = "done" /\ lresult[q] = "exit"
        /\ acquired[q] = 1 /\ unlocks[q] = 1

\* C10 as stated: an instance id is marked in use only when the Report of the
\* creation exists, and a creation that ends without a Report has not marked
\* its id in use.
C10_InUseOnlyWithReport ==
    \A p \in Procs :
        /\ \A m \in marks[p] : m[2]
        /\ (lpc[p] = "done" /\ lreport[p] = "none") => marks[p] = {}

\* C10 as amended: an instance id is marked in use either after the Report of
\* the creation has been produced, or, with no Report, when the user declines
\* to relaunch the instance already running on that id; a creation that ends
\* by an exception, without a Report, releases the id without marking it.
C10_InUseWithReportOrDeclined ==
    /\ \A p \in Procs :
           /\ \A m \in marks[p] : ~m[2] => pending[p] = "exit"
           /\ (lpc[p] = "done" /\ lreport[p] = "none" /\ lresult[p] # "exit")
                  => marks[p] = {}
           /\ (lpc[p] = "done" /\ lresult[p] \in {"report", "exit"}
                  /\ acquired[p] = 1) => lockInUse[ins_id[p]]
    /\ \A i \in Ids :
           lockInUse[i] # inUseAtStart[i] =>
               \E p \in Procs : \E m \in marks[p] : m[1] = i

C10_Witness ==
    \E p, q \in Procs :
        /\ lpc[p] = "done" /\ lresult[p] = "raised" /\ acquired[p] = 1
        /\ ~lockInUse[ins_id[p]]
        /\ lpc[q] = "done" /\ lresult[q] = "report" /\ acquired[q] = 1
        /\ lockInUse[ins_id[q]] /\ ~inUseAtStart[ins_id[q]]

\* The other invocation took (and kept or later released) the lock of id i.
TakenByOther(p, i) ==
    \E q \in Procs \ {p} : acquired[q] = 1 /\ ins_id[q] = i

\* C11 as stated: when a creation has raised after launch_cvd was started
\* and before its Report was returned, its instance id is marked in use.
C11_CrashLeavesSlotInUse ==
    \A p \in Procs :
        (lpc[p] = "done" /\ lresult[p] = "raised" /\ launched[p]) =>
            lockInUse[ins_id[p]]

\* C11 as amended: when a creation has raised after launch_cvd was started
\* and before its Report was returned, the creation has released the lock
\* without marking the id: the id is in use only if it was already marked
\* before or another invocation marked it, and otherwise stays available to
\* a later automatic id selection.
C11_CrashLeavesSlotUnmarked ==
    \A p \in Procs :
        (lpc[p] = "done" /\ lresult[p] = "raised" /\ launched[p]) =>
            /\ marks[p] = {}
            /\ lockHolder[ins_id[p]] # p
            /\ lockInUse[ins_id[p]] =>
                   \/ inUseAtStart[ins_id[p]]
                   \/ \E q \in Procs \ {p} :
                          \E m \in marks[q] : m[1] = ins_id[p]

\* A later automatic selection has taken the id of the crashed creation.
C11_Witness ==
    \E p, q \in Procs :
        /\ lpc[p] = "done" /\ lresult[p] = "raised" /\ launched[p]
        /\ spec_id[q] = 0
        /\ lpc[q] = "launching"
        /\ ins_id[q] = ins_id[p]
        /\ lockHolder[ins_id[p]] = q

\* C12: two concurrent invocations never run launch_cvd on the same instance
\* id at the same time: an invocation is launching on id k only while it
\* holds the lock of id k.
C12_NoTwoLaunchesOnOneId ==
    /\ \A p \in Procs :
           lpc[p] = "launching" => lockHolder[ins_id[p]] = p
    /\ \A p, q \in Procs :
           (p # q /\ lpc[p] = "launching" /\ lpc[q] = "launching") =>
               ins_id[p] # ins_id[q]

\* One invocation is launching on the id the other one asked for and was
\* refused.
C12_Witness ==
    \E p, q \in Procs :
        /\ p # q
        /\ lpc[p] = "launching"
        /\ spec_id[q] = ins_id[p]
        /\ lpc[q] = "done"
        /\ lerror[q] = "locked_by_another_process"
        /\ acquired[q] = 0

\* C13: with no instance id given, the scan goes through ids 1..10 upwards
\* and takes the first id whose lock is free and not in use when the scan
\* reaches it: every smaller id is marked in use or was locked by the
\* concurrent invocation.  When the scan finds no such id among all ten, the
\* creation returns a FAIL Report with the all-instances-in-use error and
\* has launched nothing.
C13_ScanTakesSmallestFreeId ==
    \A p \in Procs :
        spec_id[p] = 0 =>
            /\ acquired[p] = 1 =>
                   /\ ins_id[p] \in Ids
                   /\ ins_id[p] = cand[p]
                   /\ ~inUseAtStart[ins_id[p]]
                   /\ \A j \in 1..(ins_id[p] - 1) :
                          lockInUse[j] \/ TakenByOther(p, j)
            /\ lerror[p] = "INSTANCES_IN_USE_MSG" =>
                   /\ lpc[p] = "done"
                   /\ lresult[p] = "report"
                   /\ lreport[p] = "FAIL"
                   /\ acquired[p] = 0 /\ ~launched[p] /\ ins_id[p] = 0
                   /\ \A j \in Ids : lockInUse[j] \/ TakenByOther(p, j)
            /\ (lpc[p] = "done" /\ acquired[p] = 0 /\ cand[p] > 1) =>
                   lerror[p] = "INSTANCES_IN_USE_MSG"

\* One invocation took id 3 past two ids in use, the other found all in use.
C13_Witness ==
    \E p, q \in Procs :
        /\ spec_id[p] = 0 /\ acquired[p] = 1 /\ ins_id[p] = 3
        /\ lockInUse[1] /\ lockInUse[2]
        /\ spec_id[q] = 0 /\ lerror[q] = "INSTANCES_IN_USE_MSG"

----------------------------------------------------------------------------
\* Every attempt of the remote-shell helper failed to connect (ssh ended
\* with status 255).
EveryAttemptFailedToConnect ==
    /\ callLog # <<>>
    /\ \A i \in 1..Len(callLog) : callLog[i].returncode = 255

\* C14: a connection failure of a remote shell command is retried a fixed,
\* bounded number of times with a growing sleep between the attempts, and
\* when every attempt has failed the failure ends up as an error of the
\* Report that CreateDevices returns.
C14_ConnectionFailureSurfacesInReport ==
    caller \in RemoteShellCallers =>
        /\ Len(callLog) <= SSH_CMD_MAX_RETRY(caller) + 1
        /\ Len(sleeps) >= Len(callLog) - 1
        /\ \A k \in 1..Len(sleeps) :
               /\ sleeps[k] > 0
               /\ k > 1 => sleeps[k] > sleeps[k - 1]
        /\ (rpc = "propagated" /\ EveryAttemptFailedToConnect) =>
               /\ result = "report"
               /\ reporter.status = "FAIL"
               /\ reporter.errors # <<>>

\* C15: _SshLogOutput tells three outcomes apart by the exit status alone:
\* 0 raises nothing, 255 raises DeviceConnectionError, any other status
\* raises CalledProcessError; no status gives both errors.
C15_ExitCodeDecidesTheError ==
    caller = "ShellCmdWithRetry" =>
        \A i \in 1..Len(callLog) :
            LET rc == callLog[i].returncode
                out == callLog[i].outcome
            IN /\ (rc = 0) <=> (out.kind = "return")
               /\ (rc = 255) <=> (out = Raises("DeviceConnectionError"))
               /\ (rc \notin {0, 255}) <=> (out = Raises("CalledProcessError"))

\* A connection failure was followed by a command that failed on the device.
C15_Witness ==
    /\ caller = "ShellCmdWithRetry"
    /\ Len(callLog) >= 2
    /\ callLog[1].returncode = 255
    /\ Last(callLog).returncode \notin {0, 255}
    /\ rresult.kind = "raised" /\ rresult.what = "CalledProcessError"

\* Every call of functor so far raised an exception the checker accepts.
EveryCallRaisedAccepted ==
    \A i \in 1..Len(callLog) :
        /\ callLog[i].outcome.kind = "raise"
        /\ callLog[i].outcome.what \in retry_types

\* C16: Retry with max_retries = n calls functor at most n + 1 times; when
\* every call raises an accepted exception there are exactly n + 1 calls and
\* the exception of the last call is raised; the value of the first call
\* that returns is returned, and that call is the last one.
C16_RetryCallsAtMostNPlusOne ==
    /\ Len(callLog) <= max_retries + 1
    /\ attempt_count = Len(callLog)
    /\ (rpc # "loop" /\ EveryCallRaisedAccepted) =>
           /\ Len(callLog) = max_retries + 1
           /\ rresult = [kind |-> "raised",
                         what |-> Last(callLog).outcome.what,
                         call |-> max_retries + 1]
    /\ \A i \in 1..Len(callLog) :
           callLog[i].outcome.kind = "return" =>
               /\ i = Len(callLog)
               /\ rpc # "loop"
               /\ rresult = [kind |-> "returned",
                             what |-> callLog[i].outcome.what, call |-> i]

\* Retry with the largest max_retries gave up after max_retries + 1 calls
\* that raised two different accepted exceptions.
C16_Witness ==
    /\ caller = "Retry"
    /\ max_retries = MaxRetries
    /\ rpc = "done"
    /\ EveryCallRaisedAccepted
    /\ Len(callLog) = max_retries + 1
    /\ callLog[1].outcome.what # Last(callLog).outcome.what
    /\ rresult.kind = "raised"

\* C17: the loop of PollAndWait ends; it raises timeout_exception only when
\* more than timeout_secs have passed since the start and the last value
\* polled was not the expected one, and it returns only after func returned
\* the expected value.
C17_PollLoopEnds ==
    /\ <>(ppc = "done")
    /\ [](presult = "timeout_exception" =>
              /\ now - start > timeout_secs
              /\ return_value # expected_return
              /\ polls >= 1)
    /\ [](presult = "returned" =>
              /\ return_value = expected_return
              /\ polls >= 1)
    /\ [](ppc = "done" <=> presult # "none")

\* The condition was not met in several polls and the loop timed out.
C17_Witness ==
    /\ presult = "timeout_exception"
    /\ polls >= 2
    /\ timeout_secs >= 1

\* The Report of the invocation: the one create.Run got from the creator, or
\* the one main got from the gce driver.
ResultingReport == IF avd_type = "gce" THEN main_report ELSE run_report
HasErrorOrBootFailure(rep) ==
    rep.errors # <<>> \/ rep.devices_failing_boot # <<>>

\* C18: for the create subcommand the exit status of the process is non-zero
\* exactly when the resulting Report holds an error or a boot failure.
C18_ExitCodeReflectsReport ==
    (which = "create" /\ mpc = "done" /\ ResultingReport # NoReport) =>
        ((exit_code # 0) <=> HasErrorOrBootFailure(ResultingReport))

\* The (instance type, image source) pairs that have a creation strategy.
SupportedPairs == {"local", "remote"} \X {"local", "remote"}

\* C19: when avd_spec.AVDSpec raised, or the pair of the specification has
\* no strategy, no creator class is selected, none is instantiated and
\* Create is not called; the invocation ends by that exception.
C19_SpecOrDispatchErrorAborts ==
    /\ spec_outcome = "error" =>
           /\ avd_creator = "none" /\ ~ instantiated /\ ~ create_called
           /\ mpc = "done" /\ ended = "raised"
    /\ (spec_outcome = "ok"
        /\ <<instance_type, image_source>> \notin SupportedPairs) =>
           /\ avd_creator = "none" /\ ~ instantiated /\ ~ create_called
           /\ mpc \in {"select", "done"}
           /\ mpc = "done" => ended = "raised"
    /\ (instantiated \/ create_called) =>
           /\ spec_outcome = "ok"
           /\ <<instance_type, image_source>> \in SupportedPairs

\* The strategy selection failed for a specification that was constructed.
C19_Witness ==
    /\ spec_outcome = "ok"
    /\ instance_type = "local" /\ image_source = "unknown"
    /\ mpc = "done" /\ ended = "raised"

\* The steps of RemoteInstanceDeviceFactory.CreateInstance before launch_cvd
\* is started, and the outcome kind of a failure of each: the compute
\* client raises DriverErrors, the remote shell helper of the factory raises
\* subprocess.CalledProcessError.
StepsBeforeBooting ==
    {"_CreateGceInstance", "_SetAVDenv", "_UploadArtifacts"}
StepFailure(step) ==
    IF step = "_CreateGceInstance" THEN "driver_error" ELSE "other_error"

\* C20: a failure of a provisioning step before booting is recorded as a
\* failure of the Report and the device is in neither device list.
C20_EarlyFailureIsRecorded ==
    \A step \in StepsBeforeBooting :
        \A i \in 1..Len(createLog) :
            (pc = "done" /\ createLog[i].outcome = StepFailure(step)) =>
                /\ result = "report"
                /\ reporter.status = "FAIL"
                /\ ErrorText(createLog[i].outcome, createLog[i].name)
                       \in Range(reporter.errors)
                /\ createLog[i].name \notin Range(Names(devices))
                /\ \A j \in 1..Len(reporter.devices) :
                       reporter.devices[j].instance_name # createLog[i].name
                /\ \A j \in 1..Len(reporter.devices_failing_boot) :
                       reporter.devices_failing_boot[j].instance_name
                           # createLog[i].name

----------------------------------------------------------------------------
\* The launch_cvd process ended with a non-zero status, by itself or by the
\* kill of the boot timeout.
LaunchFailed == cvd_proc = "exited" /\ cvd_returncode # 0

\* C21: when launch_cvd ends with a non-zero return code or is killed at the
\* boot timeout, _CreateInstance returns a Report with status BOOT_FAIL whose
\* single boot-failure entry names the instance and whose error holds the
\* return code and the launcher.log of the instance's runtime directory; no
\* exception leaves _CreateInstance.
C21_LaunchFailureIsBootFail ==
    /\ cvd_killed => LaunchFailed
    /\ (LaunchFailed /\ cvd_pc = "wait") => cvd_result = "none"
    /\ (LaunchFailed /\ cvd_pc # "wait") =>
           /\ cvd_pc = "done"
           /\ cvd_result = "report"
           /\ cvd_report.status = "BOOT_FAIL"
           /\ cvd_report.devices = <<>>
           /\ Len(cvd_report.devices_failing_boot) = 1
           /\ cvd_report.devices_failing_boot[1].instance_name
                  = GetLocalInstanceName(cvd_id)
           /\ cvd_report.errors =
                  <<LaunchErrorText(cvd_returncode,
                                    GetLocalInstanceRuntimeDir(cvd_id))>>

\* The boot timeout elapsed, the timer killed launch_cvd and the Report was
\* returned.
C21_Witness ==
    /\ cvd_killed
    /\ cvd_clock = cvd_timeout
    /\ cvd_pc = "done"
    /\ cvd_result = "report"
    /\ cvd_report.errors[1].returncode = SIGKILL

\* C22: the image files of a build are downloaded, decompressed, the boot
\* image unpacked and the permissions set exactly when the directory of the
\* build id did not exist: an invocation that finds the directory runs no
\* step and returns it, an invocation that does not find it runs the steps
\* in order and returns the directory after the last one.
C22_ProcessedIffDirectoryAbsent ==
    /\ \E n \in 0..Len(ProcessSteps) : ic_steps = SubSeq(ProcessSteps, 1, n)
    /\ (ic_count > 0 /\ ic_existed) =>
           /\ ic_steps = <<>>
           /\ ic_result = [kind |-> "returned", path |-> ExtractPath(ic_build)]
    /\ (ic_count > 0 /\ ~ ic_existed) =>
           /\ ic_pc = "processing" => ic_result.kind = "none"
           /\ ic_pc = "idle" => ic_steps # <<>>
           /\ ic_result.kind = "returned" =>
                  /\ ic_steps = ProcessSteps
                  /\ ic_result.path = ExtractPath(ic_build)
                  /\ cache_dirs[ic_build].done = Range(ProcessSteps)

\* The directory of a build was processed by one invocation and returned
\* untouched by the next.
C22_Witness ==
    /\ ic_count = 2
    /\ ic_existed
    /\ ic_result.kind = "returned"
    /\ cache_dirs[ic_build].done = Range(ProcessSteps)
    /\ \A b \in BuildIds \ {ic_build} : ~ cache_dirs[b].exists

\* The local image directory the invocation works with: the path given with
\* --local-image, else $ANDROID_PRODUCT_OUT.
ResolvedLocalPath ==
    IF ~ Falsy(args.local_image) THEN args.local_image ELSE env_product_out

\* A local image on a local instance whose image directory does not exist,
\* in an invocation that is otherwise in order.
UnreachableLocalArtifact ==
    /\ args.local_instance
    /\ argv_local_image \in {"<no value>", "/good/out", "/missing/out"}
    /\ ResolvedLocalPath = "/missing/out"
    /\ args.hw_property \in {"", "valid"}

\* C23: with a local image, a local instance and an image path that cannot
\* be reached, the invocation ends before anything is launched, the error
\* that ends it is the local-image-not-found error (GetLocalImageError), and
\* neither the build API nor the GCP setup is consulted.
C23_UnreachablePathFailsFast ==
    UnreachableLocalArtifact =>
        /\ avd_pc \notin {"constructed", "launching"}
        /\ avd_pc = "raised" => avd_error = "GetLocalImageError"
        /\ lkgb_calls = 0
        /\ ~ gcp_checked

\* The strategy each supported pair (instance type, image source) stands
\* for.
StrategyOf ==
    [p \in SupportedPairs |->
        (IF p[2] = "local" THEN "LocalImage" ELSE "RemoteImage") \o
        (IF p[1] = "local" THEN "LocalInstance" ELSE "RemoteInstance")]

\* C25: the selection yields, for each of the four supported pairs, the
\* strategy of that pair, a different one for each pair; for every other
\* pair it raises the unsupported-instance-image-type error; and it
\* instantiates nothing, creates nothing and writes no report.
C25_OneStrategyPerSupportedPair ==
    /\ \A p \in SupportedPairs :
           /\ GetAvdCreatorClass(p[1], p[2]) = StrategyOf[p]
           /\ \A q \in SupportedPairs \ {p} :
                  GetAvdCreatorClass(q[1], q[2]) # GetAvdCreatorClass(p[1], p[2])
    /\ \A p \in (InstanceTypes \X ImageSources) \ SupportedPairs :
           GetAvdCreatorClass(p[1], p[2]) = "raise"
    /\ avd_creator # "none" =>
           /\ <<instance_type, image_source>> \in SupportedPairs
           /\ avd_creator = StrategyOf[<<instance_type, image_source>>]
    /\ mpc = "instantiate" =>
           /\ avd_creator # "none"
           /\ ~ instantiated /\ ~ create_called /\ ~ dumped
           /\ run_report = NoReport /\ main_report = NoReport
           /\ ended = "none"
    /\ (spec_outcome = "ok" /\ mpc = "done"
        /\ <<instance_type, image_source>> \notin SupportedPairs) =>
           /\ ended = "raised"
           /\ avd_creator = "none"
           /\ ~ instantiated /\ ~ create_called /\ ~ dumped
           /\ run_report = NoReport /\ main_report = NoReport

\* The strategy of a remote image on a local instance was selected, and
\* nothing else has happened yet.
C25_Witness ==
    /\ mpc = "instantiate"
    /\ instance_type = "local" /\ image_source = "remote"
    /\ avd_creator = "RemoteImageLocalInstance"
    /\ ~ instantiated

\* What the last invocation of CreateSshKeyPairIfNotExist found.
FoundPrivate == ssh_before.private # 0

FoundPublic == ssh_before.public.exists

NothingGenerated ==
    /\ ssh_generated = [keygen |-> 0, pubgen |-> 0]
    /\ private_file = ssh_before.private
    /\ public_file = ssh_before.public

Constructed == avd_pc \in {"constructed", "launching"}

LocalPopulated == ~ Falsy(local_image_dir)

RemotePopulated ==
    /\ remote_image.dict
    /\ \A f \in {"build_branch", "build_target", "build_id"} :
           remote_image[f] \notin {"absent", "None", ""}

\* C26: after the construction of the specification exactly one of the
\* local image path and the remote image coordinates is populated: the
\* local path iff the image source is local, the remote coordinates iff it
\* is remote.
C26_ExactlyOneImageDescription ==
    Constructed =>
        /\ avd_image_source \in {"local_image", "remote_image"}
        /\ LocalPopulated <=> avd_image_source = "local_image"
        /\ RemotePopulated <=> avd_image_source = "remote_image"
        /\ LocalPopulated # RemotePopulated

\* A specification with a local image whose path was taken from the
\* environment.
C26_Witness ==
    /\ Constructed
    /\ args.local_image = "None"
    /\ avd_image_source = "local_image"
    /\ local_image_dir = env_product_out
    /\ ~ remote_image.dict

\* C27 as stated: the image source is remote unless --local-image was on the
\* command line, and a --local-image with the empty string as its value
\* selects the local source.
C27_AnyLocalImageFlagSelectsLocal ==
    avd_image_source # "None" =>
        /\ avd_image_source = "remote_image" <=> argv_local_image = "<absent>"
        /\ argv_local_image = "" => avd_image_source = "local_image"

\* C27: the image source is remote exactly when args.local_image is the
\* empty string, which is the case without --local-image and with
\* --local-image "" alike; --local-image without a value (None) and
\* --local-image with a path select the local source, and without a value
\* the path is the one of $ANDROID_PRODUCT_OUT.
C27_EmptyStringSelectsRemote ==
    /\ avd_image_source # "None" =>
           /\ avd_image_source = "remote_image" <=>
                  argv_local_image \in {"<absent>", ""}
           /\ avd_image_source = "local_image" <=>
                  argv_local_image \notin {"<absent>", ""}
    /\ (Constructed /\ argv_local_image = "<no value>") =>
           local_image_dir = env_product_out
    /\ (Constructed /\ argv_local_image \in {"/good/out", "/missing/out"}) =>
           local_image_dir = argv_local_image

\* --local-image without a value: a local source with the inferred path.
C27_Witness ==
    /\ Constructed
    /\ argv_local_image = "<no value>"
    /\ avd_image_source = "local_image"
    /\ local_image_dir = "/good/out"

\* The value the user gave for a field of the remote build.
UserValue(f) ==
    IF f = "build_branch" THEN args.branch
    ELSE IF f = "build_target" THEN args.build_target
    ELSE args.build_id

\* _ProcessRemoteBuildArgs returned.
RemoteBuildResolved ==
    /\ avd_image_source = "remote_image"
    /\ avd_pc \in {"hw_args", "constructed"}

\* C28: branch, build target and build id are inferred only when the user
\* gave no value (None or the empty string); a value the user gave is the
\* resolved field, unchanged.
C28_InferenceOnlyWhenAbsent ==
    \A f \in {"build_branch", "build_target", "build_id"} :
        /\ f \in inferred => Falsy(UserValue(f))
        /\ (RemoteBuildResolved /\ ~ Falsy(UserValue(f))) =>
               remote_image[f] = UserValue(f)
        /\ (RemoteBuildResolved /\ Falsy(UserValue(f))) => f \in inferred

\* Branch and build id given, the build target inferred from the branch.
C28_Witness ==
    /\ RemoteBuildResolved
    /\ remote_image.build_branch = "aosp-master"
    /\ remote_image.build_id = "5046769"
    /\ inferred = {"build_target"}
    /\ remote_image.build_target = "aosp_cf_x86_phone-userdebug"

AllGivenExplicitly ==
    /\ args.local_image = ""
    /\ ~ Falsy(args.branch)
    /\ ~ Falsy(args.build_target)
    /\ ~ Falsy(args.build_id)

\* C29: with a remote image whose branch, build target and build id are all
\* given, the construction never asks the build API for the latest good
\* build.
C29_NoLookupWhenAllGiven ==
    AllGivenExplicitly => lkgb_calls = 0

\* A specification constructed from three given values, without a lookup
\* and without an inference.
C29_Witness ==
    /\ AllGivenExplicitly
    /\ Constructed
    /\ RemotePopulated
    /\ inferred = {}
    /\ lkgb_calls = 0

HasMalformedItem(dict_str) ==
    \E i \in DOMAIN dict_str :
        \/ dict_str[i].n = 1
        \/ dict_str[i].n = 2 /\ (dict_str[i].key = "" \/ dict_str[i].value = Empty)

\* The first item of the string that ParseHWPropertyArgs does not take has
\* more than one ':'.
FirstBadItemHasTwoSeparators(dict_str) ==
    \E i \in DOMAIN dict_str :
        /\ dict_str[i].n > 2
        /\ \A j \in 1..(i - 1) :
               /\ dict_str[j].n = 2
               /\ dict_str[j].key # ""
               /\ dict_str[j].value # Empty

\* The value the last item of the string with that key carries.
LastValue(dict_str, key) ==
    LET at == {i \in DOMAIN dict_str : dict_str[i].key = key}
    IN  dict_str[CHOOSE i \in at : \A j \in at : j <= i].value

HasKey(dict_str, key) == \E i \in DOMAIN dict_str : dict_str[i].key = key

\* C31: a resolution that failed leaves the hardware profile of the
\* specification as it was before the resolution began, which is None.
C31_FailedResolutionLeavesProfile ==
    hw_pc = "raised" => hw_property = [none |-> TRUE, dict |-> EmptyDict]

C33_CpuAndDpiPositive ==
    hw_pc = "done" =>
        /\ hw_property.dict["cpu"] >= 1
        /\ hw_property.dict["dpi"] >= 1

\* C34: after a resolution that succeeded each property the given string
\* names has the value of that string, and each property it does not name
\* has the value of the config's string.
C34_OverrideWins ==
    hw_pc = "done" =>
        \A key \in ProfileKeys :
            LET from == IF HasKey(arg_hw_property, AliasOf(key))
                        THEN arg_hw_property ELSE cfg_hw_property
                value == LastValue(from, AliasOf(key))
            IN  hw_property.dict[key] =
                    IF key = "y_res" THEN value.m
                    ELSE IF key \in {"memory", "disk"} THEN value.n * 1024
                    ELSE value.n

\* "memory:2g,cpu:3" over the default string: memory and cpu of the given
\* string, disk and dpi of the config.
C34_Witness ==
    /\ hw_pc = "done"
    /\ cfg_hw_property = DefaultHwProperty
    /\ arg_hw_property = <<Item("memory", GbTok(2)), Item("cpu", IntTok(3))>>
    /\ hw_property.dict["memory"] = 2048
    /\ hw_property.dict["cpu"] = 3
    /\ hw_property.dict["disk"] = 4096
    /\ hw_property.dict["dpi"] = 320

\* C35: the profile of a string cpu:N,resolution:WxH,dpi:D,memory:Mg,disk:Sg
\* has memory M*1024, disk S*1024, x_res W and y_res H. The config's string
\* is such a string, and after the first half of _ProcessHWPropertyArgs the
\* profile is the one parsed from it.
C35_UnitsAndResolution ==
    hw_pc = "overrides" =>
        /\ hw_property.dict["memory"] = cfg_hw_property[4].value.n * 1024
        /\ hw_property.dict["disk"] = cfg_hw_property[5].value.n * 1024
        /\ hw_property.dict["x_res"] = cfg_hw_property[2].value.n
        /\ hw_property.dict["y_res"] = cfg_hw_property[2].value.m

\* cpu:4,resolution:1080x1920,dpi:240,memory:2g,disk:8g parsed.
C35_Witness ==
    /\ hw_pc = "overrides"
    /\ cfg_hw_property[4].value = GbTok(2)
    /\ cfg_hw_property[5].value = GbTok(8)
    /\ hw_property.dict["memory"] = 2048
    /\ hw_property.dict["disk"] = 8192
    /\ hw_property.dict["x_res"] = 1080
    /\ hw_property.dict["y_res"] = 1920

\* The fixed order of the provisioning states up to the boot.
ProvisioningOrder ==
    <<"PENDING", "IMAGE_READY", "INSTANCE_CREATED", "ENV_CONFIGURED",
      "ARTIFACTS_UPLOADED", "BOOTING">>

\* Position of a state in the fixed order.
OrderIndex(state) ==
    CHOOSE i \in DOMAIN ProvisioningOrder : ProvisioningOrder[i] = state

C37_OnlyConnectionFailuresRetried ==
    caller \in RemoteShellCallers =>
        \A i \in 1..Len(callLog) :
            callLog[i].returncode \notin {0, 255} =>
                /\ i = Len(callLog)
                /\ rresult.kind = "raised"
                /\ rresult.call = i

\* C40: with timeout_secs of 0 or less PollAndWait calls func once: it never
\* comes to a second call, and it has ended after the check of the first.
C40_NonPositiveTimeoutPollsOnce ==
    timeout_secs <= 0 =>
        /\ polls <= 1
        /\ ~ (polls = 1 /\ ppc = "call")

\* C39: whenever the image preparation has returned the directory of a build
\* id, that directory holds the artifacts downloaded, decompressed, with the
\* boot image unpacked and the permissions set.
C39_ReturnedCacheIsComplete ==
    ic_result.kind = "returned" =>
        cache_dirs[ic_build].done = Range(ProcessSteps)

\* C38: a wait during which the emulator process exited before the emulator
\* was available ends with EmulatorFail, and a wait ends with
\* DeviceBootTimeoutError only after more than the timeout has passed with
\* the emulator not up.
C38_EarlyExitRaisesEmulatorFail ==
    /\ (emu_pc = "done" /\ emu_died_early) => emu_result = "EmulatorFail"
    /\ emu_result = "DeviceBootTimeoutError" =>
           /\ emu_clock - emu_start > EMULATOR_TIMEOUT_SECS
           /\ ~ EmulatorIsUp(emu_proc, emu_available)

====
